---------------------------- MODULE Spec2Model ----------------------------
(***************************************************************************)
(* Model of the shepherd daemon (src/shepherd): the control loop of        *)
(* daemon.py, the planner of planner.py, the retry tracker of watchdog.py, *)
(* the policy enforcer of policies.py and the state files of state.py.     *)
(*                                                                         *)
(* The control loop is one sequential process.  Its position is pc, named  *)
(* after the line of daemon.py that executes next ("l86" is line 86); each *)
(* action is one statement group of _run_loop that ends in at most one     *)
(* mutation of the state directory, so that every on-disk state between    *)
(* two consecutive writes is a state of the model.                         *)
(*                                                                         *)
(* Task and objective ids are modelled as naturals; the task fields the    *)
(* shepherd only copies (derived_from, scope, success_criteria) and the    *)
(* result fields it only counts (tests_run, notes) are left out.  A file   *)
(* is a sequence of length at most one: <<>> is an absent file.            *)
(*                                                                         *)
(* Spec is the control loop.  SpecStore calls the write operations of the  *)
(* StateStore in any order, with payloads built from tagged JSON values   *)
(* and with any target path; SpecSelect applies select_next_task to plans  *)
(* with duplicate ids and depends_on lists of several entries.             *)
(***************************************************************************)
EXTENDS Integers, Sequences, FiniteSets, TLC

\* ------------------------------------------------------------------ bounds
\* Largest number of tasks in an initial plan.
MaxTasks == 2
\* Largest configured max_retries_per_task (config values are 0..MaxRetriesCfg).
MaxRetriesCfg == 2
\* Largest configured max_consecutive_failures (config values are 1..MaxConsecCfg).
MaxConsecCfg == 3
\* Number of shepherd runs on the same project root.
MaxRuns == 2
\* Number of store operations called in a row when the store is exercised on its own.
MaxStoreOps == 3
\* Number of append_summary calls applied to one summary file.
MaxAppends == 3
\* Largest number of entries in a files_changed list handed to the policy enforcer.
MaxFiles == 3

\* ------------------------------------------------------- program constants
\* daemon.py:43  max_retries_per_task = min(config.max_retries_per_task, 1)
RetryClamp == 1

\* state.py:29
TASK_STATUSES == {"pending", "active", "done", "failed", "blocked"}
\* state.py:28
OBJECTIVE_STATUSES == {"pending", "in_progress", "complete"}
\* state.py:30
CODEX_RESULT_STATUSES == {"success", "failed", "blocked"}

None == <<>>
Some(x) == <<x>>
Get(opt) == opt[1]

TaskIds == 1..MaxTasks
\* An id that names no task of any plan (a dangling depends_on entry).
MissingId == MaxTasks + 1

\* ------------------------------------------------------------------ paths
\* A path string is [abs, segs]; resolved paths are absolute segment lists.
ProjectRoot == <<"proj">>
\* state.py:13,82
StateDir == ProjectRoot \o <<"ai">>
\* state.py:14,83
DesignDir == ProjectRoot \o <<"design">>

RECURSIVE Normalize(_, _)
\* Path.resolve(): ".." drops the last segment (the root has no parent), "." is dropped.
Normalize(segs, acc) ==
    IF segs = <<>> THEN acc
    ELSE LET s == Head(segs) IN
         IF s = ".." THEN Normalize(Tail(segs), IF acc = <<>> THEN acc ELSE SubSeq(acc, 1, Len(acc) - 1))
         ELSE IF s = "." THEN Normalize(Tail(segs), acc)
         ELSE Normalize(Tail(segs), Append(acc, s))

\* policies.py:13-17
resolve_path(project_root, p) ==
    Normalize(IF p.abs THEN p.segs ELSE project_root \o p.segs, <<>>)

\* policies.py:46-51
is_within(path, directory) ==
    /\ Len(directory) <= Len(path)
    /\ SubSeq(path, 1, Len(directory)) = directory

\* Mutant of IsForbidden: the check that the path stays inside the project root is lost.
IsForbidden_NoRootCheck(entry) ==
    LET resolved == resolve_path(ProjectRoot, entry) IN
    \/ is_within(resolved, DesignDir)
    \/ is_within(resolved, StateDir)

\* policies.py:32-39: whether one reported entry is forbidden.
IsForbidden(entry) ==
    LET resolved == resolve_path(ProjectRoot, entry) IN
    \/ is_within(resolved, DesignDir)
    \/ is_within(resolved, StateDir)
    \/ ~is_within(resolved, ProjectRoot)

\* policies.py:20-43: the entries assert_no_forbidden_changes collects.
ForbiddenChanges(files_changed) ==
    SelectSeq(files_changed, IsForbidden)

\* policies.py:41-43: TRUE iff assert_no_forbidden_changes raises PolicyViolation.
PolicyViolated(files_changed) == ForbiddenChanges(files_changed) # <<>>

Rel(segs) == [abs |-> FALSE, segs |-> segs]
Abs(segs) == [abs |-> TRUE, segs |-> segs]

\* The files_changed lists the modelled agent reports.
FilesChoices ==
    { <<Rel(<<"src", "a.txt">>)>>,
      <<Rel(<<"design", "spec.md">>)>>,
      <<Rel(<<"src", "a.txt">>), Rel(<<"ai", "PLAN.yaml">>)>>,
      <<Rel(<<"src", "..", "..", "x">>)>> }

\* ---------------------------------------------------------------- planner
Task(id, objective, status, depends_on) ==
    [id |-> id, objective |-> objective, status |-> status, depends_on |-> depends_on]

\* planner.py:20
EmptyPlan == [version |-> 1, objectives |-> <<>>, tasks |-> <<>>]

\* planner.py:77-86: TRUE iff _task_map raises PlannerError (duplicate id).
task_map_fails(tasks) ==
    \E i, j \in 1..Len(tasks) : i < j /\ tasks[i].id = tasks[j].id

\* planner.py:77-86: the task a given id maps to.
task_map(tasks, id) ==
    tasks[CHOOSE i \in 1..Len(tasks) : tasks[i].id = id]

HasTask(tasks, id) == \E i \in 1..Len(tasks) : tasks[i].id = id

\* Mutant of dependencies_satisfied: no task's dependencies ever count as satisfied.
dependencies_satisfied_Never(depends_on, tasks) == "no"

RECURSIVE dependencies_satisfied(_, _)
\* planner.py:88-98: "yes", "no", or "error" (PlannerError: dependency not found).
\* The entries are examined in list order and the first one not done returns.
dependencies_satisfied(depends_on, tasks) ==
    IF depends_on = <<>> THEN "yes"
    ELSE LET dep == Head(depends_on) IN
         IF ~HasTask(tasks, dep) THEN "error"
         ELSE IF task_map(tasks, dep).status # "done" THEN "no"
         ELSE dependencies_satisfied(Tail(depends_on), tasks)

RECURSIVE select_scan(_, _)
\* planner.py:28-38: the document-order scan from index i on.
select_scan(tasks, i) ==
    IF i > Len(tasks) THEN [kind |-> "none", index |-> 0]
    ELSE IF tasks[i].status = "active" THEN [kind |-> "error", index |-> i]
    ELSE IF tasks[i].status # "pending" THEN select_scan(tasks, i + 1)
    ELSE LET sat == dependencies_satisfied(tasks[i].depends_on, tasks) IN
         IF sat = "error" THEN [kind |-> "error", index |-> i]
         ELSE IF sat = "no" THEN select_scan(tasks, i + 1)
         ELSE [kind |-> "task", index |-> i]

\* Mutant of select_next_task: the first pending task is returned whatever its dependencies.
select_next_task_FirstPending(plan) ==
    IF task_map_fails(plan.tasks) THEN [kind |-> "error", index |-> 0]
    ELSE IF \E i \in 1..Len(plan.tasks) : plan.tasks[i].status = "pending"
    THEN [kind |-> "task",
          index |-> CHOOSE i \in 1..Len(plan.tasks) :
                        /\ plan.tasks[i].status = "pending"
                        /\ \A j \in 1..(i - 1) : plan.tasks[j].status # "pending"]
    ELSE [kind |-> "none", index |-> 0]

\* planner.py:25-38
select_next_task(plan) ==
    IF task_map_fails(plan.tasks) THEN [kind |-> "error", index |-> 0]
    ELSE select_scan(plan.tasks, 1)

\* planner.py:100-104: index of the first task with the id.
find_task(plan, task_id) ==
    CHOOSE i \in 1..Len(plan.tasks) :
        /\ plan.tasks[i].id = task_id
        /\ \A j \in 1..(i - 1) : plan.tasks[j].id # task_id

\* Mutant of RolledUp: an active task does not count towards in_progress.
RolledUp_ActiveIgnored(obj, tasks) ==
    LET statuses == { tasks[i].status : i \in { j \in 1..Len(tasks) : tasks[j].objective = obj.id } } IN
    IF statuses = {} THEN obj.status
    ELSE IF statuses \subseteq {"done"} THEN "complete"
    ELSE IF statuses \cap {"done", "failed", "blocked"} # {} THEN "in_progress"
    ELSE "pending"

\* planner.py:106-128: the status _refresh_objective_statuses leaves in obj.
RolledUp(obj, tasks) ==
    LET statuses == { tasks[i].status : i \in { j \in 1..Len(tasks) : tasks[j].objective = obj.id } } IN
    IF statuses = {} THEN obj.status
    ELSE IF statuses \subseteq {"done"} THEN "complete"
    ELSE IF statuses \cap {"active", "done", "failed", "blocked"} # {} THEN "in_progress"
    ELSE "pending"

\* planner.py:106-128
refresh_objective_statuses(plan) ==
    [plan EXCEPT !.objectives =
        [k \in 1..Len(plan.objectives) |->
            [plan.objectives[k] EXCEPT !.status = RolledUp(plan.objectives[k], plan.tasks)]]]

\* Mutant of set_status: the status is stored in every task of the plan.
set_status_EveryTask(plan, task_id, status) ==
    refresh_objective_statuses(
        [plan EXCEPT !.tasks = [i \in 1..Len(plan.tasks) |-> [plan.tasks[i] EXCEPT !.status = status]]])

\* planner.py:40-56: task["status"] = status; self._refresh_objective_statuses(plan)
set_status(plan, task_id, status) ==
    refresh_objective_statuses(
        [plan EXCEPT !.tasks[find_task(plan, task_id)].status = status])

\* planner.py:40-46: the plan after activate_task.
activate_task(plan, task_id) == set_status(plan, task_id, "active")

\* Mutant of active_projection: the configured task timeout is not attached.
active_projection_NoTimeout(plan, task_id, timeout_seconds) ==
    LET t == plan.tasks[find_task(plan, task_id)] IN
    [id |-> t.id, objective |-> t.objective, status |-> t.status,
     depends_on |-> t.depends_on, timeout_seconds |-> 0]

\* planner.py:44-46: the Active Task projection activate_task returns.
active_projection(plan, task_id, timeout_seconds) ==
    LET t == plan.tasks[find_task(plan, task_id)] IN
    [id |-> t.id, objective |-> t.objective, status |-> t.status,
     depends_on |-> t.depends_on, timeout_seconds |-> timeout_seconds]

\* Mutant of finalize_task: the status is not stored.
finalize_task_Noop(plan, task_id, status) == plan

\* planner.py:48-51
finalize_task(plan, task_id, status) == set_status(plan, task_id, status)

\* planner.py:53-56
reset_task_for_retry(plan, task_id) == set_status(plan, task_id, "pending")

\* planner.py:58-62: the snapshot write_progress derives (id -> status maps as sets of pairs).
progress_of(plan) ==
    [objectives |-> { <<plan.objectives[k].id, plan.objectives[k].status>> : k \in 1..Len(plan.objectives) },
     tasks |-> { <<plan.tasks[i].id, plan.tasks[i].status>> : i \in 1..Len(plan.tasks) }]

\* --------------------------------------------------------------- watchdog
\* Mutant of EffectiveMaxRetries: the configured value is used unclamped.
EffectiveMaxRetries_NoClamp(k) == k

\* daemon.py:43
EffectiveMaxRetries(k) == IF k < RetryClamp THEN k ELSE RetryClamp

\* Mutant of can_retry: strict comparison.
can_retry_Strict(attempts, task_id, max_retries_per_task) ==
    attempts[task_id] < max_retries_per_task

\* watchdog.py:23-24
can_retry(attempts, task_id, max_retries_per_task) ==
    attempts[task_id] <= max_retries_per_task

\* watchdog.py:26-27
too_many_consecutive_failures(consecutive_failures, max_consecutive_failures) ==
    consecutive_failures >= max_consecutive_failures

\* ------------------------------------------------------------ JSON values
\* The values a payload is made of, tagged with their Python type.
JStr(s) == [type |-> "str", s |-> s]
JInt(n) == [type |-> "int", n |-> n]
JBool(b) == [type |-> "bool", b |-> b]
JList(items) == [type |-> "list", items |-> items]
JDict(fields) == [type |-> "dict", fields |-> fields]

\* Python's isinstance for the classes the validator tests: bool is a subclass of int.
isinstance(value, class) ==
    \/ value.type = class
    \/ class = "int" /\ value.type = "bool"

\* ------------------------------------------------------ schema validation
\* Each operator is TRUE iff the function of state.py returns without raising
\* StateValidationError.

\* state.py:354-356
require_mapping(value) == isinstance(value, "dict")

\* state.py:359-361
require_list(value) == isinstance(value, "list")

\* state.py:364-368
require_keys(mapping, required) == required \subseteq DOMAIN mapping.fields

\* state.py:371-375
reject_extra_keys(mapping, allowed) == DOMAIN mapping.fields \subseteq allowed

\* Mutant of require_int: the test that excludes booleans is lost.
require_int_BoolAccepted(value) == isinstance(value, "int")

\* state.py:378-380
require_int(value) == ~(~isinstance(value, "int") \/ isinstance(value, "bool"))

\* state.py:383-385
require_string(value) == isinstance(value, "str")

\* state.py:388-392
require_string_list(value) ==
    /\ require_list(value)
    /\ \A index \in 1..Len(value.items) : isinstance(value.items[index], "str")

\* state.py:395-399
require_enum(value, allowed) ==
    /\ require_string(value)
    /\ value.s \in allowed

\* state.py:293-299
validate_objective(obj) ==
    /\ require_mapping(obj)
    /\ require_keys(obj, {"id", "source", "status"})
    /\ reject_extra_keys(obj, {"id", "source", "status"})
    /\ require_string(obj.fields["id"])
    /\ require_string(obj.fields["source"])
    /\ require_enum(obj.fields["status"], OBJECTIVE_STATUSES)

\* state.py:313-318, 335-340: the optional string lists of a task.
validate_optional_lists(task) ==
    \A key \in {"depends_on", "scope", "success_criteria"} :
        key \in DOMAIN task.fields => require_string_list(task.fields[key])

\* state.py:302-319
validate_task(task) ==
    /\ require_mapping(task)
    /\ require_keys(task, {"id", "objective", "derived_from", "status"})
    /\ reject_extra_keys(task, {"id", "objective", "derived_from", "status",
                                "depends_on", "scope", "success_criteria"})
    /\ require_string(task.fields["id"])
    /\ require_string(task.fields["objective"])
    /\ require_string(task.fields["derived_from"])
    /\ require_enum(task.fields["status"], TASK_STATUSES)
    /\ validate_optional_lists(task)

\* state.py:276-290
validate_plan(plan) ==
    /\ require_mapping(plan)
    /\ require_keys(plan, {"version", "objectives", "tasks"})
    /\ reject_extra_keys(plan, {"version", "objectives", "tasks"})
    /\ require_int(plan.fields["version"])
    /\ require_list(plan.fields["objectives"])
    /\ \A index \in 1..Len(plan.fields["objectives"].items) :
          validate_objective(plan.fields["objectives"].items[index])
    /\ require_list(plan.fields["tasks"])
    /\ \A index \in 1..Len(plan.fields["tasks"].items) :
          validate_task(plan.fields["tasks"].items[index])

\* state.py:322-341
validate_active_task(task) ==
    /\ require_mapping(task)
    /\ require_keys(task, {"id", "objective", "derived_from", "status", "timeout_seconds"})
    /\ reject_extra_keys(task, {"id", "objective", "derived_from", "status", "timeout_seconds",
                                "depends_on", "scope", "success_criteria"})
    /\ require_string(task.fields["id"])
    /\ require_string(task.fields["objective"])
    /\ require_string(task.fields["derived_from"])
    /\ require_enum(task.fields["status"], TASK_STATUSES)
    /\ require_int(task.fields["timeout_seconds"])
    /\ validate_optional_lists(task)

\* state.py:344-351, on a whole JSON object
validate_codex_result_object(result) ==
    /\ require_mapping(result)
    /\ require_keys(result, {"status", "files_changed", "tests_run", "notes"})
    /\ reject_extra_keys(result, {"status", "files_changed", "tests_run", "notes"})
    /\ require_enum(result.fields["status"], CODEX_RESULT_STATUSES)
    /\ require_string_list(result.fields["files_changed"])
    /\ require_string_list(result.fields["tests_run"])
    /\ require_string(result.fields["notes"])

\* ------------------------------------------------------------ state store
\* state.py:85  config_path
config_path == ProjectRoot \o <<"ai", "config.json">>
\* state.py:86
goals_path == StateDir \o <<"GOALS.md">>
\* state.py:87
sources_path == StateDir \o <<"SOURCES.yaml">>
\* state.py:88
plan_path == StateDir \o <<"PLAN.yaml">>
\* state.py:89
active_task_path == StateDir \o <<"ACTIVE_TASK.yaml">>
\* state.py:90
summary_path == StateDir \o <<"SUMMARY.md">>
\* state.py:91
last_result_path == StateDir \o <<"LAST_RESULT.json">>
\* state.py:92
progress_path == StateDir \o <<"PROGRESS.yaml">>

\* state.py:97-101
read_only_paths ==
    { Normalize(config_path, <<>>), Normalize(goals_path, <<>>), Normalize(sources_path, <<>>) }

\* state.py:102-108
writable_paths ==
    { Normalize(plan_path, <<>>), Normalize(active_task_path, <<>>), Normalize(summary_path, <<>>),
      Normalize(last_result_path, <<>>), Normalize(progress_path, <<>>) }

\* state.py:109
design_resolved == Normalize(DesignDir, <<>>)

\* Mutant of ensure_writable_path: the test for the design directory is lost.
ensure_writable_path_NoDesignCheck(path) ==
    LET resolved == Normalize(path, <<>>) IN
    IF resolved \in read_only_paths THEN "ReadOnlyStateError"
    ELSE IF resolved \notin writable_paths THEN "StateError"
    ELSE "ok"

\* state.py:253-260: "ok", or the exception _ensure_writable_path raises.
ensure_writable_path(path) ==
    LET resolved == Normalize(path, <<>>) IN
    IF resolved \in read_only_paths THEN "ReadOnlyStateError"
    ELSE IF is_within(resolved, design_resolved) THEN "ReadOnlyStateError"
    ELSE IF resolved \notin writable_paths THEN "StateError"
    ELSE "ok"

\* The paths the module-level write functions are called with: the eight files of the
\* store, files under design/, files that are neither read-only nor writable, and
\* spellings with ".." of a design file and of the plan file.
WriteTargets ==
    { config_path, goals_path, sources_path,
      plan_path, active_task_path, summary_path, last_result_path, progress_path,
      DesignDir \o <<"spec.md">>,
      DesignDir \o <<"sub", "notes.md">>,
      StateDir \o <<"..", "design", "spec.md">>,
      StateDir \o <<"NOTES.md">>,
      ProjectRoot \o <<"src", "a.txt">>,
      ProjectRoot \o <<"src", "..", "ai", "PLAN.yaml">> }

\* The files of the modelled file system.
FsPaths == { Normalize(t, <<>>) : t \in WriteTargets }

\* Content of a file: absent, text number idx, or payload number idx of a payload list.
Absent == [kind |-> "absent", idx |-> 0]
Content(kind, idx) == [kind |-> kind, idx |-> idx]

\* The project the shepherd is started on: the read-only files and the design files
\* exist, the other files do not.
InitialFs ==
    [p \in FsPaths |->
        IF p \in read_only_paths \/ is_within(p, design_resolved) THEN Content("text", 0) ELSE Absent]

\* os.replace(tmp_path, path) of state.py:247 on the modelled file system.
replace(files, path, content) == [files EXCEPT ![Normalize(path, <<>>)] = content]

\* A dict with one key removed, and with one key set.
Without(d, key) == JDict([k \in DOMAIN d.fields \ {key} |-> d.fields[k]])
With(d, key, value) ==
    JDict([k \in DOMAIN d.fields \cup {key} |-> IF k = key THEN value ELSE d.fields[k]])

\* Payloads handed to write_last_result, each with the schema rule it violates.
ValidResult ==
    JDict([status |-> JStr("success"), files_changed |-> JList(<<JStr("src/a.txt")>>),
           tests_run |-> JList(<<>>), notes |-> JStr("done")])
ResultPayloads ==
    << [json |-> ValidResult, violation |-> "none"],
       [json |-> With(ValidResult, "status", JStr("blocked")), violation |-> "none"],
       [json |-> Without(ValidResult, "notes"), violation |-> "missing key"],
       [json |-> With(ValidResult, "duration", JInt(3)), violation |-> "unexpected key"],
       [json |-> With(ValidResult, "notes", JInt(3)), violation |-> "wrong type"],
       [json |-> With(ValidResult, "status", JStr("partial")), violation |-> "enum violation"],
       [json |-> With(ValidResult, "files_changed", JList(<<JStr("src/a.txt"), JInt(1)>>)),
        violation |-> "non-string list element"] >>

\* Payloads handed to write_active_task.
ValidActiveTask ==
    JDict([id |-> JStr("t1"), objective |-> JStr("o1"), derived_from |-> JStr("GOALS.md"),
           status |-> JStr("active"), timeout_seconds |-> JInt(30)])
ActiveTaskPayloads ==
    << [json |-> ValidActiveTask, violation |-> "none"],
       [json |-> With(ValidActiveTask, "depends_on", JList(<<JStr("t0")>>)), violation |-> "none"],
       [json |-> Without(ValidActiveTask, "timeout_seconds"), violation |-> "missing key"],
       [json |-> With(ValidActiveTask, "priority", JInt(1)), violation |-> "unexpected key"],
       [json |-> With(ValidActiveTask, "scope", JStr("src")), violation |-> "wrong type"],
       [json |-> With(ValidActiveTask, "timeout_seconds", JBool(TRUE)), violation |-> "boolean as integer"],
       [json |-> With(ValidActiveTask, "status", JStr("running")), violation |-> "enum violation"],
       [json |-> With(ValidActiveTask, "depends_on", JList(<<JInt(0)>>)),
        violation |-> "non-string list element"] >>

\* Payloads handed to write_plan.
ValidObjective == JDict([id |-> JStr("o1"), source |-> JStr("GOALS.md"), status |-> JStr("pending")])
ValidTask ==
    JDict([id |-> JStr("t1"), objective |-> JStr("o1"), derived_from |-> JStr("GOALS.md"),
           status |-> JStr("pending"), depends_on |-> JList(<<>>)])
PlanOf(version, objectives, tasks) ==
    JDict([version |-> version, objectives |-> objectives, tasks |-> tasks])
ValidPlan == PlanOf(JInt(1), JList(<<ValidObjective>>), JList(<<ValidTask>>))
PlanPayloads ==
    << [json |-> PlanOf(JInt(1), JList(<<>>), JList(<<>>)), violation |-> "none"],
       [json |-> ValidPlan, violation |-> "none"],
       [json |-> Without(ValidPlan, "tasks"), violation |-> "missing key"],
       [json |-> PlanOf(JInt(1), JList(<<With(ValidObjective, "owner", JStr("me"))>>), JList(<<ValidTask>>)),
        violation |-> "unexpected key"],
       [json |-> PlanOf(JInt(1), JStr("none"), JList(<<ValidTask>>)), violation |-> "wrong type"],
       [json |-> PlanOf(JInt(1), JList(<<ValidObjective>>), JList(<<JStr("t1")>>)), violation |-> "wrong type"],
       [json |-> PlanOf(JBool(TRUE), JList(<<ValidObjective>>), JList(<<ValidTask>>)),
        violation |-> "boolean as integer"],
       [json |-> PlanOf(JInt(1), JList(<<With(ValidObjective, "status", JStr("done"))>>), JList(<<ValidTask>>)),
        violation |-> "enum violation"],
       [json |-> PlanOf(JInt(1), JList(<<ValidObjective>>),
                        JList(<<With(ValidTask, "scope", JList(<<JStr("src"), JInt(2)>>))>>)),
        violation |-> "non-string list element"] >>

\* The strings handed to write_summary, write_progress and _atomic_write_text.
TextChoices == {1, 2}

\* ------------------------------------------------------------------ state
VARIABLES
    config,               \* ai/config.json (read-only): the Config of state.py:33-46
    planFile,             \* ai/PLAN.yaml
    activeFile,           \* ai/ACTIVE_TASK.yaml
    lastResultFile,       \* ai/LAST_RESULT.json
    progressFile,         \* ai/PROGRESS.yaml
    summaryFile,          \* ai/SUMMARY.md: the entries appended so far
    pc,                   \* position of the run: "start", a line of _run_loop, "stopped", "halted"
    cause,                \* why the run ended (the exception main() caught, or the normal stop)
    plan,                 \* _run_loop's local plan
    task,                 \* id of _run_loop's local task (0: none)
    active_task,          \* _run_loop's local active_task
    result,               \* _run_loop's local result.payload
    max_retries_per_task, \* RetryTracker.max_retries_per_task
    attempts,             \* RetryTracker.attempts (0: no entry)
    consecutive_failures, \* RetryTracker.consecutive_failures
    run,                  \* history: number of the current run
    invocations,          \* history: agent invocations per task id in the current run
    log,                  \* history: state-directory mutations and agent calls of the current iteration
    prevCause,            \* history: cause of the previous run's end ("" in the first run)
    startActive,          \* history: number of active tasks in ai/PLAN.yaml when the current run started
    lastFailed,           \* history: id of the task whose failure the tracker recorded last in this run (0: none)
    initActive,           \* history: number of active tasks in ai/PLAN.yaml before the first run
    fs,                   \* the files of the project as the store's own operations see them
    storeErr,             \* the exception the last store operation raised ("" if none)
    storeOp,              \* the last store operation called: its name, target path and payload
    storeCalls,           \* the number of store operations called so far
    selPlan,              \* the plan select_next_task is applied to on its own
    selOut,               \* the outcome of that application (absent before it)
    atomicWrite,          \* one call of _atomic_write_bytes: its arguments, position and files
    runTask,              \* one call of MCPClient.run_task: its position, the subprocess, the answer
    inputs,               \* the design directory, ai/GOALS.md and ai/SOURCES.yaml as main() finds them
    summaryDoc,           \* ai/SUMMARY.md as text under append_summary calls, and the entries passed
    policyCheck           \* one call of assert_no_forbidden_changes: its argument and its outcome

\* The store and the planner exercised on their own, outside the control loop.
\* Single functions exercised on their own, one variable for each.
apart == <<atomicWrite, runTask, inputs, summaryDoc, policyCheck>>
standalone == <<fs, storeErr, storeOp, storeCalls, selPlan, selOut, apart>>
fixed == <<config, initActive, standalone>>
disk == <<planFile, activeFile, lastResultFile, progressFile, summaryFile>>
tracker == <<max_retries_per_task, attempts, consecutive_failures>>
locals == <<plan, task, active_task, result>>
history == <<run, invocations, log, prevCause, startActive, lastFailed>>
vars == <<fixed, disk, pc, cause, locals, tracker, history>>

\* ------------------------------------------------------------ initial state
\* Configurations _parse_config accepts (state.py:402-493).
Configs ==
    [max_retries_per_task : 0..MaxRetriesCfg,
     max_consecutive_failures : 1..MaxConsecCfg,
     strict_schema_validation : BOOLEAN,
     task_timeout_seconds : {30}]

ObjectiveOf(i) == IF i <= 2 THEN 1 ELSE 2

\* depends_on lists of the initial plans.  Only a pending task's list is ever read
\* (planner.py:32-35), and no task that starts in another status becomes pending, so
\* the other tasks carry the empty list.
DepChoices(n, i, status) ==
    IF status = "pending"
    THEN {<<>>, <<MissingId>>} \cup { <<j>> : j \in (1..n) \ {i} }
    ELSE {<<>>}

AllDepLists == {<<>>, <<MissingId>>} \cup { <<j>> : j \in TaskIds }

\* Schema-valid plans (state.py:276-319) of n tasks with unique ids, in document order.
PlansOfSize(n) ==
    { [version |-> 1,
       objectives |-> [k \in 1..2 |-> [id |-> k, status |-> os]],
       tasks |-> [i \in 1..n |-> Task(i, ObjectiveOf(i), st[i], dp[i])]] :
        os \in OBJECTIVE_STATUSES,
        <<st, dp>> \in { sd \in [1..n -> TASK_STATUSES] \X [1..n -> AllDepLists] :
                          \A i \in 1..n : sd[2][i] \in DepChoices(n, i, sd[1][i]) } }

InitialPlans == UNION { PlansOfSize(n) : n \in 0..MaxTasks }

\* An Active Task file left behind by an earlier execution.
StaleActiveTask ==
    [id |-> 1, objective |-> 1, status |-> "active", depends_on |-> <<>>, timeout_seconds |-> 30]

NoAttempts == [i \in TaskIds |-> 0]

\* A call of a store operation.
Call(op, target, payload) == [op |-> op, target |-> target, payload |-> payload]

\* No store operation has been called outside the loop.
StoreIdle ==
    /\ fs = InitialFs
    /\ storeErr = ""
    /\ storeOp = Call("none", <<>>, 0)
    /\ storeCalls = 0

\* No single function is being exercised on its own.
ApartIdle ==
    /\ atomicWrite = [pc |-> "idle"]
    /\ runTask = [pc |-> "idle"]
    /\ inputs = "present"
    /\ summaryDoc = [pc |-> "idle"]
    /\ policyCheck = [pc |-> "idle"]

\* select_next_task is not exercised on its own.
SelectIdle ==
    /\ selPlan = None
    /\ selOut = None

\* Number of tasks in status active in a plan file or local plan (0 when absent).
ActiveCount(p) ==
    IF p = None THEN 0
    ELSE Cardinality({ i \in 1..Len(Get(p).tasks) : Get(p).tasks[i].status = "active" })

Init ==
    /\ config \in Configs
    /\ planFile \in {None} \cup { Some(p) : p \in InitialPlans }
    /\ activeFile \in {None, Some(StaleActiveTask)}
    /\ lastResultFile = None
    /\ progressFile = None
    /\ summaryFile = <<>>
    /\ pc = "start"
    /\ cause = ""
    /\ plan = None
    /\ task = 0
    /\ active_task = None
    /\ result = None
    /\ max_retries_per_task = 0
    /\ attempts = NoAttempts
    /\ consecutive_failures = 0
    /\ run = 1
    /\ invocations = NoAttempts
    /\ log = <<>>
    /\ prevCause = ""
    /\ startActive = ActiveCount(planFile)
    /\ lastFailed = 0
    /\ initActive = ActiveCount(planFile)
    /\ StoreIdle
    /\ SelectIdle
    /\ ApartIdle

\* ---------------------------------------------------------------- actions
\* main() catches the exception, logs the cause and exits (daemon.py:55-64).
Halt(c) ==
    /\ pc' = "halted"
    /\ cause' = c

\* daemon.py:42-53: build the planner and the retry tracker, then enter the loop.
Startup ==
    /\ pc = "start"
    /\ max_retries_per_task' = EffectiveMaxRetries(config.max_retries_per_task)
    /\ attempts' = NoAttempts
    /\ consecutive_failures' = 0
    /\ pc' = "l76"
    /\ UNCHANGED <<fixed, disk, cause, locals, history>>

\* Mutant of LockHeld: the Active Task file is not looked at.
LockHeld_Never == FALSE

\* daemon.py:76: store.active_task_path.exists()
LockHeld == activeFile # None

\* daemon.py:75-77: the top of an iteration.
CheckLock ==
    /\ pc = "l76"
    /\ IF LockHeld
       THEN /\ Halt("ActiveTaskExists")
            /\ UNCHANGED <<result, log>>
       ELSE /\ pc' = "l79"
            /\ result' = None
            /\ log' = <<>>
            /\ UNCHANGED cause
    /\ UNCHANGED <<fixed, disk, plan, task, active_task, tracker, run, invocations, prevCause, startActive, lastFailed>>

\* daemon.py:79, planner.py:18-23: ensure_plan.
EnsurePlan ==
    /\ pc = "l79"
    /\ IF planFile = None
       THEN /\ planFile' = Some(EmptyPlan)
            /\ plan' = Some(EmptyPlan)
            /\ log' = Append(log, "plan")
       ELSE /\ plan' = planFile
            /\ UNCHANGED <<planFile, log>>
    /\ pc' = "l80"
    /\ UNCHANGED <<fixed, activeFile, lastResultFile, progressFile, summaryFile, cause,
                   task, active_task, result, tracker, run, invocations, prevCause, startActive, lastFailed>>

\* daemon.py:80-85: select_next_task, then activate_task on the local plan.
SelectAndActivate ==
    /\ pc = "l80"
    /\ LET sel == select_next_task(Get(plan)) IN
       CASE sel.kind = "error" ->
              /\ Halt("PlannerError")
              /\ UNCHANGED <<plan, task, active_task>>
         [] sel.kind = "none" ->
              /\ pc' = "stopped"
              /\ cause' = "NoPendingTasks"
              /\ UNCHANGED <<plan, task, active_task>>
         [] sel.kind = "task" ->
              LET id == Get(plan).tasks[sel.index].id
                  p2 == activate_task(Get(plan), id) IN
              /\ task' = id
              /\ plan' = Some(p2)
              /\ active_task' = Some(active_projection(p2, id, config.task_timeout_seconds))
              /\ pc' = "l86"
              /\ UNCHANGED cause
    /\ UNCHANGED <<fixed, disk, result, tracker, history>>

\* Where each write of _run_loop continues.
AfterWritePlan(l) ==
    CASE l = "l86" -> "l87" [] l = "l119" -> "l120" [] l = "l125" -> "l126"
      [] l = "l136" -> "l137" [] l = "l141" -> "l142"
AfterWriteProgress(l) ==
    CASE l = "l87" -> "l88" [] l = "l120" -> "l76" [] l = "l126" -> "l127"
      [] l = "l137" -> "l138" [] l = "l142" -> "l143"

\* daemon.py:86,119,125,136,141: store.write_plan(plan).
WritePlan ==
    /\ pc \in {"l86", "l119", "l125", "l136", "l141"}
    /\ planFile' = plan
    /\ log' = Append(log, "plan")
    /\ pc' = AfterWritePlan(pc)
    /\ UNCHANGED <<fixed, activeFile, lastResultFile, progressFile, summaryFile, cause,
                   locals, tracker, run, invocations, prevCause, startActive, lastFailed>>

\* daemon.py:87,120,126,137,142: planner.write_progress(plan).
WriteProgress ==
    /\ pc \in {"l87", "l120", "l126", "l137", "l142"}
    /\ progressFile' = Some(progress_of(Get(plan)))
    /\ log' = Append(log, "progress")
    /\ pc' = AfterWriteProgress(pc)
    /\ UNCHANGED <<fixed, planFile, activeFile, lastResultFile, summaryFile, cause,
                   locals, tracker, run, invocations, prevCause, startActive, lastFailed>>

\* Mutant of WriteActiveTask: the loop goes on to the agent without creating the file.
WriteActiveTask_Skipped ==
    /\ pc = "l88"
    /\ pc' = "l98"
    /\ UNCHANGED <<fixed, disk, cause, locals, tracker, history>>

\* daemon.py:88: store.write_active_task(active_task).
WriteActiveTask ==
    /\ pc = "l88"
    /\ activeFile' = active_task
    /\ log' = Append(log, "active_create")
    /\ pc' = "l98"
    /\ UNCHANGED <<fixed, planFile, lastResultFile, progressFile, summaryFile, cause,
                   locals, tracker, run, invocations, prevCause, startActive, lastFailed>>

\* The JSON objects the modelled agent answers with (mcp_client.py:115-124).
AgentPayloads ==
    [status : CODEX_RESULT_STATUSES \cup {"other"}, files_changed : FilesChoices]

\* Mutant of RunAgent: a protocol or process error deletes the Active Task file.
RunAgent_ErrorClearsLock ==
    /\ pc = "l98"
    /\ invocations' = [invocations EXCEPT ![task] = @ + 1]
    /\ log' = Append(log, "agent")
    /\ \/ \E payload \in AgentPayloads :
             /\ result' = Some(payload)
             /\ pc' = "l102"
             /\ UNCHANGED <<cause, activeFile>>
       \/ /\ Halt("Timeout")
          /\ UNCHANGED <<result, activeFile>>
       \/ /\ Halt("MCPError")
          /\ activeFile' = None
          /\ UNCHANGED result
    /\ UNCHANGED <<fixed, planFile, lastResultFile, progressFile, summaryFile, plan, task,
                   active_task, tracker, run, prevCause, startActive, lastFailed>>

\* daemon.py:90-100: run_task returns a payload, or raises MCPTimeoutError
\* (-> StopExecution), MCPProtocolError or MCPProcessError (-> main's MCPError handler).
RunAgent ==
    /\ pc = "l98"
    /\ invocations' = [invocations EXCEPT ![task] = @ + 1]
    /\ log' = Append(log, "agent")
    /\ \/ \E payload \in AgentPayloads :
             /\ result' = Some(payload)
             /\ pc' = "l102"
             /\ UNCHANGED cause
       \/ /\ Halt("Timeout")
          /\ UNCHANGED result
       \/ /\ Halt("MCPError")
          /\ UNCHANGED result
    /\ UNCHANGED <<fixed, disk, plan, task, active_task, tracker, run, prevCause, startActive, lastFailed>>

\* daemon.py:102, state.py:194-198: store.clear_active_task().
ClearActiveTask ==
    /\ pc = "l102"
    /\ activeFile' = None
    /\ log' = IF activeFile # None THEN Append(log, "active_delete") ELSE log
    /\ pc' = "l105"
    /\ UNCHANGED <<fixed, planFile, lastResultFile, progressFile, summaryFile, cause,
                   locals, tracker, run, invocations, prevCause, startActive, lastFailed>>

\* Mutant of validate_codex_result: the enum check of the status is lost.
validate_codex_result_AnyStatus(payload) == TRUE

\* state.py:344-351: TRUE iff _validate_codex_result accepts the payload.
validate_codex_result(payload) == payload.status \in CODEX_RESULT_STATUSES

\* daemon.py:105, state.py:184-188: store.write_last_result(result.payload).
WriteLastResult ==
    /\ pc = "l105"
    /\ IF config.strict_schema_validation /\ ~validate_codex_result(Get(result))
       THEN /\ Halt("StateValidation")
            /\ UNCHANGED <<lastResultFile, log>>
       ELSE /\ lastResultFile' = result
            /\ log' = Append(log, "last_result")
            /\ pc' = "l107"
            /\ UNCHANGED cause
    /\ UNCHANGED <<fixed, planFile, activeFile, progressFile, summaryFile,
                   locals, tracker, run, invocations, prevCause, startActive, lastFailed>>

\* daemon.py:107-112: assert_no_forbidden_changes(result.payload["files_changed"]).
CheckPolicy ==
    /\ pc = "l107"
    /\ IF PolicyViolated(Get(result).files_changed)
       THEN Halt("PolicyViolation")
       ELSE pc' = "l114" /\ UNCHANGED cause
    /\ UNCHANGED <<fixed, disk, locals, tracker, history>>

\* Mutant of OnSuccess: the tracker is not told of the success.
OnSuccess_NotRecorded ==
    /\ pc = "l114"
    /\ Get(result).status = "success"
    /\ plan' = Some(finalize_task(Get(plan), task, "done"))
    /\ pc' = "l118"
    /\ UNCHANGED <<fixed, disk, cause, task, active_task, result, tracker, history>>

\* daemon.py:114-117: status == "success".
OnSuccess ==
    /\ pc = "l114"
    /\ Get(result).status = "success"
    /\ plan' = Some(finalize_task(Get(plan), task, "done"))
    /\ consecutive_failures' = 0
    /\ attempts' = [attempts EXCEPT ![task] = 0]
    /\ pc' = "l118"
    /\ UNCHANGED <<fixed, disk, cause, task, active_task, result, max_retries_per_task, history>>

\* Mutant of OnBlocked: a blocked result is counted as a failure.
OnBlocked_CountsFailure ==
    /\ pc = "l114"
    /\ Get(result).status = "blocked"
    /\ plan' = Some(finalize_task(Get(plan), task, "blocked"))
    /\ consecutive_failures' = consecutive_failures + 1
    /\ pc' = "l125"
    /\ UNCHANGED <<fixed, disk, cause, task, active_task, result, max_retries_per_task, attempts, history>>

\* daemon.py:123-124: status == "blocked".
OnBlocked ==
    /\ pc = "l114"
    /\ Get(result).status = "blocked"
    /\ plan' = Some(finalize_task(Get(plan), task, "blocked"))
    /\ pc' = "l125"
    /\ UNCHANGED <<fixed, disk, cause, task, active_task, result, tracker, history>>

\* daemon.py:130-135,140: status == "failed".
OnFailed ==
    /\ pc = "l114"
    /\ Get(result).status = "failed"
    /\ LET a2 == [attempts EXCEPT ![task] = @ + 1]
           c2 == consecutive_failures + 1 IN
       /\ attempts' = a2
       /\ consecutive_failures' = c2
       /\ IF too_many_consecutive_failures(c2, config.max_consecutive_failures)
          THEN /\ Halt("MaxConsecutiveFailures")
               /\ UNCHANGED plan
          ELSE IF can_retry(a2, task, max_retries_per_task)
          THEN /\ plan' = Some(reset_task_for_retry(Get(plan), task))
               /\ pc' = "l136"
               /\ UNCHANGED cause
          ELSE /\ plan' = Some(finalize_task(Get(plan), task, "failed"))
               /\ pc' = "l141"
               /\ UNCHANGED cause
    /\ lastFailed' = task
    /\ UNCHANGED <<fixed, disk, task, active_task, result, max_retries_per_task,
                   run, invocations, log, prevCause, startActive>>

\* daemon.py:146: any other status.
OnUnexpected ==
    /\ pc = "l114"
    /\ Get(result).status \notin {"success", "blocked", "failed"}
    /\ Halt("UnexpectedStatus")
    /\ UNCHANGED <<fixed, disk, locals, tracker, history>>

\* daemon.py:118,127,138,143: _append_summary; lines 128 and 144 then raise StopExecution.
AppendSummary ==
    /\ pc \in {"l118", "l127", "l138", "l143"}
    /\ summaryFile' = Append(summaryFile, [task |-> task, status |-> Get(result).status])
    /\ log' = Append(log, "summary")
    /\ CASE pc = "l118" -> pc' = "l119" /\ UNCHANGED cause
         [] pc = "l138" -> pc' = "l76" /\ UNCHANGED cause
         [] pc = "l127" -> Halt("Blocked")
         [] pc = "l143" -> Halt("TaskFailed")
    /\ UNCHANGED <<fixed, planFile, activeFile, lastResultFile, progressFile,
                   locals, tracker, run, invocations, prevCause, startActive, lastFailed>>

\* A later run of the shepherd on the same project root: a new process, the same files.
Restart ==
    /\ pc \in {"halted", "stopped"}
    /\ run < MaxRuns
    /\ run' = run + 1
    /\ prevCause' = cause
    /\ startActive' = ActiveCount(planFile)
    /\ pc' = "start"
    /\ cause' = ""
    /\ plan' = None
    /\ task' = 0
    /\ active_task' = None
    /\ result' = None
    /\ max_retries_per_task' = 0
    /\ attempts' = NoAttempts
    /\ consecutive_failures' = 0
    /\ invocations' = NoAttempts
    /\ log' = <<>>
    /\ lastFailed' = 0
    /\ UNCHANGED <<fixed, disk>>

Next ==
    \/ Startup
    \/ CheckLock
    \/ EnsurePlan
    \/ SelectAndActivate
    \/ WritePlan
    \/ WriteProgress
    \/ WriteActiveTask
    \/ RunAgent
    \/ ClearActiveTask
    \/ WriteLastResult
    \/ CheckPolicy
    \/ OnSuccess
    \/ OnBlocked
    \/ OnFailed
    \/ OnUnexpected
    \/ AppendSummary
    \/ Restart

Spec == Init /\ [][Next]_vars

\* ------------------------------------------------- the store on its own
\* The control loop before main() has started it.
LoopIdle ==
    /\ planFile = None
    /\ activeFile = None
    /\ lastResultFile = None
    /\ progressFile = None
    /\ summaryFile = <<>>
    /\ pc = "start"
    /\ cause = ""
    /\ plan = None
    /\ task = 0
    /\ active_task = None
    /\ result = None
    /\ max_retries_per_task = 0
    /\ attempts = NoAttempts
    /\ consecutive_failures = 0
    /\ run = 1
    /\ invocations = NoAttempts
    /\ log = <<>>
    /\ prevCause = ""
    /\ startActive = 0
    /\ lastFailed = 0
    /\ initActive = 0

loop == <<config, initActive, disk, pc, cause, locals, tracker, history, apart>>

\* StateStore(project_root, strict_schema_validation = ...) of state.py:68-109 on a
\* project whose read-only files exist.
InitStore ==
    /\ config \in { c \in Configs : c.max_retries_per_task = 0 /\ c.max_consecutive_failures = 1 }
    /\ LoopIdle
    /\ StoreIdle
    /\ SelectIdle
    /\ ApartIdle

\* One more store operation is called.
Called(op, target, payload) ==
    /\ storeCalls < MaxStoreOps
    /\ storeCalls' = storeCalls + 1
    /\ storeOp' = Call(op, target, payload)

\* state.py:221-226, 241-250: _atomic_write_text(path, content, store); the temporary
\* file is created, written and renamed onto the target within the call.
atomic_write_text(path, content) ==
    LET checked == ensure_writable_path(path) IN
    IF checked # "ok"
    THEN /\ storeErr' = checked
         /\ UNCHANGED fs
    ELSE /\ fs' = replace(fs, path, content)
         /\ storeErr' = ""

\* state.py:229-238: _atomic_write_json(path, data, store).
atomic_write_json(path, data, content) ==
    IF ~isinstance(data, "dict")
    THEN /\ storeErr' = "TypeError"
         /\ UNCHANGED fs
    ELSE atomic_write_text(path, content)

\* state.py:168-172
StoreWritePlan ==
    /\ \E i \in 1..Len(PlanPayloads) :
          /\ Called("write_plan", plan_path, i)
          /\ IF config.strict_schema_validation /\ ~validate_plan(PlanPayloads[i].json)
             THEN /\ storeErr' = "StateValidationError"
                  /\ UNCHANGED fs
             ELSE atomic_write_json(plan_path, PlanPayloads[i].json, Content("plan", i))
    /\ UNCHANGED <<loop, selPlan, selOut>>

\* state.py:174-178
StoreWriteActiveTask ==
    /\ \E i \in 1..Len(ActiveTaskPayloads) :
          /\ Called("write_active_task", active_task_path, i)
          /\ IF config.strict_schema_validation /\ ~validate_active_task(ActiveTaskPayloads[i].json)
             THEN /\ storeErr' = "StateValidationError"
                  /\ UNCHANGED fs
             ELSE atomic_write_json(active_task_path, ActiveTaskPayloads[i].json, Content("active_task", i))
    /\ UNCHANGED <<loop, selPlan, selOut>>

\* state.py:184-188
StoreWriteLastResult ==
    /\ \E i \in 1..Len(ResultPayloads) :
          /\ Called("write_last_result", last_result_path, i)
          /\ IF config.strict_schema_validation /\ ~validate_codex_result_object(ResultPayloads[i].json)
             THEN /\ storeErr' = "StateValidationError"
                  /\ UNCHANGED fs
             ELSE atomic_write_json(last_result_path, ResultPayloads[i].json, Content("last_result", i))
    /\ UNCHANGED <<loop, selPlan, selOut>>

\* state.py:180-182
StoreWriteSummary ==
    /\ \E c \in TextChoices :
          /\ Called("write_summary", summary_path, c)
          /\ atomic_write_text(summary_path, Content("text", c))
    /\ UNCHANGED <<loop, selPlan, selOut>>

\* state.py:190-192
StoreWriteProgress ==
    /\ \E c \in TextChoices :
          /\ Called("write_progress", progress_path, c)
          /\ atomic_write_text(progress_path, Content("text", c))
    /\ UNCHANGED <<loop, selPlan, selOut>>

\* state.py:194-198
StoreClearActiveTask ==
    /\ Called("clear_active_task", active_task_path, 0)
    /\ IF fs[Normalize(active_task_path, <<>>)] # Absent
       THEN LET checked == ensure_writable_path(active_task_path) IN
            IF checked # "ok"
            THEN /\ storeErr' = checked
                 /\ UNCHANGED fs
            ELSE /\ fs' = replace(fs, active_task_path, Absent)
                 /\ storeErr' = ""
       ELSE /\ storeErr' = ""
            /\ UNCHANGED fs
    /\ UNCHANGED <<loop, selPlan, selOut>>

\* state.py:221-226: the module-level write called with any path.
StoreAtomicWriteText ==
    /\ \E target \in WriteTargets, c \in TextChoices :
          /\ Called("_atomic_write_text", target, c)
          /\ atomic_write_text(target, Content("text", c))
    /\ UNCHANGED <<loop, selPlan, selOut>>

NextStore ==
    \/ StoreWritePlan
    \/ StoreWriteActiveTask
    \/ StoreWriteLastResult
    \/ StoreWriteSummary
    \/ StoreWriteProgress
    \/ StoreClearActiveTask
    \/ StoreAtomicWriteText

SpecStore == InitStore /\ [][NextStore]_vars

\* ---------------------------------------------- select_next_task on its own
\* depends_on lists of up to two entries over the ids 1..n and the missing id.
SelectDepLists(n) ==
    LET ids == (1..n) \cup {MissingId} IN
    {<<>>} \cup { <<a>> : a \in ids } \cup { <<a, b>> : a, b \in ids }

\* Status and depends_on list of one task: as in the initial plans of the loop, only
\* pending tasks carry a depends_on list.
SelectTaskChoices(n) ==
    { <<"pending", dp>> : dp \in SelectDepLists(n) }
        \cup { <<st, <<>>>> : st \in TASK_STATUSES \ {"pending"} }

\* Task ids in document order: unique, the last one repeating the first, or all equal.
SelectIdChoices(n) ==
    { [i \in 1..n |-> i], [i \in 1..n |-> IF i = n THEN 1 ELSE i], [i \in 1..n |-> 1] }

\* The plan of n tasks with the given ids, statuses and depends_on lists.
SelectPlan(n, ids, tc) ==
    [version |-> 1,
     objectives |-> <<[id |-> 1, status |-> "pending"]>>,
     tasks |-> [i \in 1..n |-> Task(ids[i], 1, tc[i][1], tc[i][2])]]

\* A plan as store.load_plan() returns it, handed to Planner.select_next_task.
InitSelect ==
    /\ config \in { c \in Configs : c.max_retries_per_task = 0 /\ c.max_consecutive_failures = 1
                                    /\ c.strict_schema_validation }
    /\ LoopIdle
    /\ StoreIdle
    /\ ApartIdle
    /\ \E n \in 0..MaxTasks :
          \E ids \in SelectIdChoices(n), tc \in [1..n -> SelectTaskChoices(n)] :
              selPlan = Some(SelectPlan(n, ids, tc))
    /\ selOut = None

\* planner.py:25-38: one call of select_next_task(plan).
ApplySelect ==
    /\ selPlan # None
    /\ selOut = None
    /\ selOut' = Some(select_next_task(Get(selPlan)))
    /\ UNCHANGED <<loop, fs, storeErr, storeOp, storeCalls, selPlan>>

NextSelect == ApplySelect

SpecSelect == InitSelect /\ [][NextSelect]_vars

\* ------------------------------------------- _atomic_write_bytes on its own
\* Every variable of the loop, the store and the selection exercised on their own.
program == <<config, initActive, disk, pc, cause, locals, tracker, history,
             fs, storeErr, storeOp, storeCalls, selPlan, selOut>>

\* A temporary file just created by mkstemp, and one holding only part of the payload.
EmptyFile == Content("empty", 0)
PartialFile(payload) == Content("partial", payload.idx)

\* Mutant of remove_tmp: the temporary file is left behind.
remove_tmp_Kept(tmp) == tmp

\* state.py:248-250: the finally clause removes the temporary file if it exists.
remove_tmp(tmp) == IF tmp # Absent THEN Absent ELSE tmp

\* _atomic_write_bytes(path, payload) is called on a writable file that is absent or
\* holds some earlier content (state.py:221-226 has checked the path).
InitWrite ==
    /\ config \in { c \in Configs : c.max_retries_per_task = 0 /\ c.max_consecutive_failures = 1
                                    /\ c.strict_schema_validation }
    /\ LoopIdle
    /\ StoreIdle
    /\ SelectIdle
    /\ runTask = [pc |-> "idle"]
    /\ inputs = "present"
    /\ summaryDoc = [pc |-> "idle"]
    /\ policyCheck = [pc |-> "idle"]
    /\ \E path \in writable_paths, c \in TextChoices,
          old \in {Absent} \cup { Content("text", k) : k \in TextChoices } :
          atomicWrite = [pc |-> "mkstemp", path |-> path, payload |-> Content("text", c),
                         old |-> old, target |-> old, tmp |-> Absent, err |-> "", at |-> ""]

\* state.py:243: tempfile.mkstemp creates the temporary file next to the target, or
\* raises before the try block is entered.
AwMkstemp ==
    /\ atomicWrite.pc = "mkstemp"
    /\ \/ atomicWrite' = [atomicWrite EXCEPT !.pc = "write", !.tmp = EmptyFile]
       \/ atomicWrite' = [atomicWrite EXCEPT !.pc = "raised", !.err = "OSError"]
    /\ UNCHANGED <<program, runTask, inputs, summaryDoc, policyCheck>>

\* state.py:245-246: handle.write(payload); what has reached the file before the
\* handle is closed is any prefix of the payload.
AwWrite ==
    /\ atomicWrite.pc = "write"
    /\ \E tmp \in {EmptyFile, PartialFile(atomicWrite.payload), atomicWrite.payload} :
          \/ atomicWrite' = [atomicWrite EXCEPT !.pc = "close", !.tmp = tmp]
          \/ /\ tmp # atomicWrite.payload
             /\ atomicWrite' = [atomicWrite EXCEPT !.pc = "finally", !.tmp = tmp, !.err = "OSError"]
    /\ UNCHANGED <<program, runTask, inputs, summaryDoc, policyCheck>>

\* state.py:245: leaving the with block flushes and closes the handle.
AwClose ==
    /\ atomicWrite.pc = "close"
    /\ \/ atomicWrite' = [atomicWrite EXCEPT !.pc = "replace", !.tmp = atomicWrite.payload]
       \/ atomicWrite' = [atomicWrite EXCEPT !.pc = "finally", !.err = "OSError"]
    /\ UNCHANGED <<program, runTask, inputs, summaryDoc, policyCheck>>

\* state.py:247: os.replace(tmp_path, path) renames the temporary file onto the target.
AwReplace ==
    /\ atomicWrite.pc = "replace"
    /\ \/ atomicWrite' = [atomicWrite EXCEPT !.pc = "finally", !.target = atomicWrite.tmp,
                                             !.tmp = Absent]
       \/ atomicWrite' = [atomicWrite EXCEPT !.pc = "finally", !.err = "OSError"]
    /\ UNCHANGED <<program, runTask, inputs, summaryDoc, policyCheck>>

\* state.py:248-250: the finally clause, then the return or the propagating exception.
AwFinally ==
    /\ atomicWrite.pc = "finally"
    /\ atomicWrite' = [atomicWrite EXCEPT !.pc = IF atomicWrite.err = "" THEN "returned" ELSE "raised",
                                          !.tmp = remove_tmp(atomicWrite.tmp)]
    /\ UNCHANGED <<program, runTask, inputs, summaryDoc, policyCheck>>

\* The process is killed or the machine stops in the middle of the call: no further
\* statement runs, the finally clause included.
AwCrash ==
    /\ atomicWrite.pc \in {"mkstemp", "write", "close", "replace", "finally"}
    /\ atomicWrite' = [atomicWrite EXCEPT !.pc = "crashed", !.at = atomicWrite.pc]
    /\ UNCHANGED <<program, runTask, inputs, summaryDoc, policyCheck>>

NextWrite ==
    \/ AwMkstemp
    \/ AwWrite
    \/ AwClose
    \/ AwReplace
    \/ AwFinally
    \/ AwCrash

SpecWrite == InitWrite /\ [][NextWrite]_vars

\* -------------------------------------------------- run_task on its own
\* The lines the agent may answer with: a JSON object, an empty line, text that is not
\* JSON, JSON that is not an object, or no line within the task timeout.
ResponseLines ==
    { [kind |-> "object", data |-> d] : d \in AgentPayloads }
    \cup { [kind |-> k, data |-> <<>>] : k \in {"empty", "nonjson", "nonobject", "none"} }

\* MCPClient(command, startup_timeout_seconds, task_timeout_seconds).run_task(payload)
\* is called with a dict payload (mcp_client.py:54-56); the agent will answer with
\* one of the response lines.
InitClient ==
    /\ config \in { c \in Configs : c.max_retries_per_task = 0 /\ c.max_consecutive_failures = 1
                                    /\ c.strict_schema_validation }
    /\ LoopIdle
    /\ StoreIdle
    /\ SelectIdle
    /\ atomicWrite = [pc |-> "idle"]
    /\ inputs = "present"
    /\ summaryDoc = [pc |-> "idle"]
    /\ policyCheck = [pc |-> "idle"]
    /\ \E answer \in ResponseLines, st \in {-1, 0} :
          runTask = [pc |-> "start_process", process |-> "none", answer |-> answer,
                     startup_timeout_seconds |-> st, signals |-> <<>>, line |-> <<>>,
                     err |-> "", ret |-> ""]

\* The statement run_task continues with when _terminate returns.
AfterTerminate(r) ==
    IF r.ret = "drain" THEN [r EXCEPT !.pc = "drain", !.ret = ""]
    ELSE [r EXCEPT !.pc = IF r.err = "" THEN "returned" ELSE "raised", !.ret = ""]

\* mcp_client.py:57, 72-85: Popen starts the subprocess or raises OSError.
RtStartProcess ==
    /\ runTask.pc = "start_process"
    /\ \/ runTask' = [runTask EXCEPT !.pc = "ensure_started", !.process = "running"]
       \/ runTask' = [runTask EXCEPT !.pc = "raised", !.err = "MCPProcessError"]
    /\ UNCHANGED <<program, atomicWrite, inputs, summaryDoc, policyCheck>>

\* The subprocess exits on its own, at any moment of the call.
RtProcessExits ==
    /\ runTask.pc \notin {"idle", "returned", "raised"}
    /\ runTask.process = "running"
    /\ runTask' = [runTask EXCEPT !.process = "exited"]
    /\ UNCHANGED <<program, atomicWrite, inputs, summaryDoc, policyCheck>>

\* mcp_client.py:59, 87-93
RtEnsureStarted ==
    /\ runTask.pc = "ensure_started"
    /\ IF runTask.process # "running" \/ runTask.startup_timeout_seconds < 0
       THEN runTask' = [runTask EXCEPT !.pc = "finally", !.err = "MCPProcessError"]
       ELSE runTask' = [runTask EXCEPT !.pc = "send_and_read"]
    /\ UNCHANGED <<program, atomicWrite, inputs, summaryDoc, policyCheck>>

\* mcp_client.py:61-63, 95-113: the request is written and one line is awaited.  A
\* subprocess that has exited breaks the pipe or is at end of file (an empty line).
RtSendAndRead ==
    /\ runTask.pc = "send_and_read"
    /\ IF runTask.process # "running"
       THEN \/ runTask' = [runTask EXCEPT !.pc = "finally", !.err = "BrokenPipeError"]
            \/ runTask' = [runTask EXCEPT !.pc = "parse_response",
                                          !.line = [kind |-> "empty", data |-> <<>>]]
       ELSE IF runTask.answer.kind = "none"
            THEN runTask' = [runTask EXCEPT !.pc = "finally", !.err = "MCPTimeoutError"]
            ELSE runTask' = [runTask EXCEPT !.pc = "parse_response", !.line = runTask.answer]
    /\ UNCHANGED <<program, atomicWrite, inputs, summaryDoc, policyCheck>>

\* mcp_client.py:64-65, 115-124
RtParseResponse ==
    /\ runTask.pc = "parse_response"
    /\ IF runTask.line.kind = "object"
       THEN runTask' = [runTask EXCEPT !.pc = "terminate", !.ret = "drain"]
       ELSE runTask' = [runTask EXCEPT !.pc = "finally", !.err = "MCPProtocolError"]
    /\ UNCHANGED <<program, atomicWrite, inputs, summaryDoc, policyCheck>>

\* mcp_client.py:126-128: _terminate sends terminate to a subprocess still running.
RtTerminate ==
    /\ runTask.pc = "terminate"
    /\ IF runTask.process = "running"
       THEN runTask' = [runTask EXCEPT !.pc = "wait", !.signals = Append(@, "terminate")]
       ELSE runTask' = AfterTerminate(runTask)
    /\ UNCHANGED <<program, atomicWrite, inputs, summaryDoc, policyCheck>>

\* mcp_client.py:129-133: the grace wait; a subprocess that outlives it is killed,
\* and a killed process ends (the signal can be neither caught nor ignored).
RtWait ==
    /\ runTask.pc = "wait"
    /\ \/ runTask' = AfterTerminate([runTask EXCEPT !.process = "exited"])
       \/ /\ runTask.process = "running"
          /\ runTask' = AfterTerminate([runTask EXCEPT !.process = "exited",
                                                       !.signals = Append(@, "kill")])
    /\ UNCHANGED <<program, atomicWrite, inputs, summaryDoc, policyCheck>>

\* mcp_client.py:66-67: stderr is drained and the result is about to be returned.
RtDrain ==
    /\ runTask.pc = "drain"
    /\ runTask' = [runTask EXCEPT !.pc = "finally"]
    /\ UNCHANGED <<program, atomicWrite, inputs, summaryDoc, policyCheck>>

\* Mutant of RtFinally: the finally clause does not terminate the subprocess.
RtFinally_NoTerminate ==
    /\ runTask.pc = "finally"
    /\ runTask' = AfterTerminate(runTask)
    /\ UNCHANGED <<program, atomicWrite, inputs, summaryDoc, policyCheck>>

\* mcp_client.py:68-70: the finally clause of run_task.
RtFinally ==
    /\ runTask.pc = "finally"
    /\ IF runTask.process = "running"
       THEN runTask' = [runTask EXCEPT !.pc = "terminate", !.ret = "end"]
       ELSE runTask' = AfterTerminate(runTask)
    /\ UNCHANGED <<program, atomicWrite, inputs, summaryDoc, policyCheck>>

NextClient ==
    \/ RtStartProcess
    \/ RtProcessExits
    \/ RtEnsureStarted
    \/ RtSendAndRead
    \/ RtParseResponse
    \/ RtTerminate
    \/ RtWait
    \/ RtDrain
    \/ RtFinally

SpecClient == InitClient /\ [][NextClient]_vars

\* ------------------------------------------- main() with its start-up checks
\* What main() may find when it checks the directories and loads the goals and the
\* sources; ai/config.json was loaded before (daemon.py:24-33).
InputStates == {"present", "no_design_dir", "no_goals", "no_sources", "invalid_sources"}

\* daemon.py:38-40, 161-165, state.py:201-218: the exception the start-up checks raise.
StartupError(found) ==
    CASE found = "present" -> ""
      [] found \in {"no_design_dir", "no_goals", "no_sources"} -> "MissingState"
      [] found = "invalid_sources" -> "StateValidation"

\* The project main() is started on, with any state of its read-only inputs.
InitMain ==
    /\ config \in Configs
    /\ planFile \in {None} \cup { Some(p) : p \in InitialPlans }
    /\ activeFile \in {None, Some(StaleActiveTask)}
    /\ lastResultFile = None
    /\ progressFile = None
    /\ summaryFile = <<>>
    /\ pc = "start"
    /\ cause = ""
    /\ plan = None
    /\ task = 0
    /\ active_task = None
    /\ result = None
    /\ max_retries_per_task = 0
    /\ attempts = NoAttempts
    /\ consecutive_failures = 0
    /\ run = 1
    /\ invocations = NoAttempts
    /\ log = <<>>
    /\ prevCause = ""
    /\ startActive = ActiveCount(planFile)
    /\ lastFailed = 0
    /\ initActive = ActiveCount(planFile)
    /\ StoreIdle
    /\ SelectIdle
    /\ atomicWrite = [pc |-> "idle"]
    /\ runTask = [pc |-> "idle"]
    /\ inputs \in InputStates
    /\ summaryDoc = [pc |-> "idle"]
    /\ policyCheck = [pc |-> "idle"]

\* daemon.py:36-53: "Shepherd starting." is logged, the directories are checked, the
\* goals and the sources are loaded, the planner and the tracker are built.  Lines
\* 38-40 stand before the try statement of line 55: what they raise leaves main()
\* uncaught, so neither a handler nor the finally clause runs.
MainStartup ==
    /\ pc = "start"
    /\ IF StartupError(inputs) # ""
       THEN /\ pc' = "crashed"
            /\ cause' = StartupError(inputs)
            /\ UNCHANGED tracker
       ELSE /\ max_retries_per_task' = EffectiveMaxRetries(config.max_retries_per_task)
            /\ attempts' = NoAttempts
            /\ consecutive_failures' = 0
            /\ pc' = "l76"
            /\ UNCHANGED cause
    /\ UNCHANGED <<fixed, disk, locals, history>>

NextMain ==
    \/ MainStartup
    \/ CheckLock
    \/ EnsurePlan
    \/ SelectAndActivate
    \/ WritePlan
    \/ WriteProgress
    \/ WriteActiveTask
    \/ RunAgent
    \/ ClearActiveTask
    \/ WriteLastResult
    \/ CheckPolicy
    \/ OnSuccess
    \/ OnBlocked
    \/ OnFailed
    \/ OnUnexpected
    \/ AppendSummary

SpecMain == InitMain /\ [][NextMain]_vars

\* ----------------------------------------------- append_summary on its own
\* A text is a sequence of symbols: a whitespace character, or a run of characters
\* that are not whitespace.
Whitespace == {" ", "\n", "\t"}

RECURSIVE rstrip(_)
\* str.rstrip(): the text without its trailing whitespace.
rstrip(text) ==
    IF text # <<>> /\ text[Len(text)] \in Whitespace
    THEN rstrip(SubSeq(text, 1, Len(text) - 1))
    ELSE text

\* planner.py:71: not existing.strip()
is_blank(text) == \A i \in 1..Len(text) : text[i] \in Whitespace

\* planner.py:68,72: the standard header.
SummaryHeader ==
    <<"# Execution Summary", "\n", "\n", "(No execution has occurred yet.)", "\n", "\n">>

\* Mutant of ensure_newline: a newline is added to every entry.
ensure_newline_Always(entry) == Append(entry, "\n")

\* planner.py:65-66
ensure_newline(entry) ==
    IF entry # <<>> /\ entry[Len(entry)] = "\n" THEN entry ELSE Append(entry, "\n")

\* planner.py:64-75: the content append_summary writes, given the file (absent or a text).
append_summary(file, entry) ==
    IF file = None \/ is_blank(Get(file))
    THEN SummaryHeader \o ensure_newline(entry)
    ELSE rstrip(Get(file)) \o <<"\n", "\n">> \o ensure_newline(entry)

\* Entries passed to append_summary: with and without a final newline, ending in other
\* whitespace (daemon.py:149-158 ends the entry with the agent's notes), of several
\* lines, blank.
EntryChoices ==
    { <<"Task 1: done">>,
      <<"Task 2: failed", "\n">>,
      <<"Task 3: done", "\n", "Notes: ok", " ">>,
      <<"Task 4: blocked", "\n", "\n">>,
      <<"\n">> }

\* ai/SUMMARY.md before the first call: absent, empty, whitespace only, or a text.
SummaryFiles ==
    { None, Some(<<>>), Some(<<" ", "\n">>), Some(<<"# Notes", "\n">>), Some(<<"# Notes", "\n", "\t">>) }

InitSummary ==
    /\ config \in { c \in Configs : c.max_retries_per_task = 0 /\ c.max_consecutive_failures = 1
                                    /\ c.strict_schema_validation }
    /\ LoopIdle
    /\ StoreIdle
    /\ SelectIdle
    /\ atomicWrite = [pc |-> "idle"]
    /\ runTask = [pc |-> "idle"]
    /\ inputs = "present"
    /\ policyCheck = [pc |-> "idle"]
    /\ \E file \in SummaryFiles :
          summaryDoc = [pc |-> "ready", file |-> file, first |-> file, prev |-> file, entries |-> <<>>]

\* planner.py:64-75: one call of append_summary(entry).
ApplyAppendSummary ==
    /\ summaryDoc.pc = "ready"
    /\ Len(summaryDoc.entries) < MaxAppends
    /\ \E entry \in EntryChoices :
          summaryDoc' = [summaryDoc EXCEPT !.file = Some(append_summary(summaryDoc.file, entry)),
                                           !.prev = summaryDoc.file,
                                           !.entries = Append(@, entry)]
    /\ UNCHANGED <<program, atomicWrite, runTask, inputs, policyCheck>>

NextSummary == ApplyAppendSummary

SpecSummary == InitSummary /\ [][NextSummary]_vars

\* ------------------------------------ assert_no_forbidden_changes on its own
\* The code points of the path segments the modelled entries are made of.
CodePoints(seg) ==
    CASE seg = ".." -> <<46, 46>>
      [] seg = "ai" -> <<97, 105>>
      [] seg = "design" -> <<100, 101, 115, 105, 103, 110>>
      [] seg = "src" -> <<115, 114, 99>>
      [] seg = "proj" -> <<112, 114, 111, 106>>
      [] seg = "etc" -> <<101, 116, 99>>
      [] seg = "x" -> <<120>>
      [] seg = "a.txt" -> <<97, 46, 116, 120, 116>>
      [] seg = "spec.md" -> <<115, 112, 101, 99, 46, 109, 100>>
      [] seg = "PLAN.yaml" -> <<80, 76, 65, 78, 46, 121, 97, 109, 108>>
      [] seg = "config.json" -> <<99, 111, 110, 102, 105, 103, 46, 106, 115, 111, 110>>

RECURSIVE JoinSegments(_)
\* The segments joined by "/" (code point 47).
JoinSegments(segs) ==
    IF segs = <<>> THEN <<>>
    ELSE IF Len(segs) = 1 THEN CodePoints(segs[1])
    ELSE CodePoints(segs[1]) \o <<47>> \o JoinSegments(Tail(segs))

\* The string of an entry, as the sequence of its code points.
EntryString(entry) ==
    IF entry.abs THEN <<47>> \o JoinSegments(entry.segs) ELSE JoinSegments(entry.segs)

RECURSIVE StrLeq(_, _)
\* Python's order on str: by code point, a proper prefix first.
StrLeq(a, b) ==
    IF a = <<>> THEN TRUE
    ELSE IF b = <<>> THEN FALSE
    ELSE IF a[1] # b[1] THEN a[1] < b[1]
    ELSE StrLeq(Tail(a), Tail(b))

RECURSIVE Insert(_, _)
\* The entry put into a sorted list, behind the entries that are not greater.
Insert(entry, list) ==
    IF list = <<>> THEN <<entry>>
    ELSE IF StrLeq(EntryString(list[1]), EntryString(entry))
         THEN <<list[1]>> \o Insert(entry, Tail(list))
         ELSE <<entry>> \o list

\* Mutant of sorted: the list is left in the order of the report.
sorted_AsReported(list) == list

RECURSIVE sorted(_)
\* policies.py:42: sorted(forbidden)
sorted(list) ==
    IF list = <<>> THEN <<>>
    ELSE Insert(list[Len(list)], sorted(SubSeq(list, 1, Len(list) - 1)))

\* policies.py:33: isinstance(entry, str); an entry that is not a string is a JSON value.
is_path_string(entry) == "segs" \in DOMAIN entry

RECURSIVE collect_forbidden(_, _)
\* policies.py:32-39: the loop over files_changed; it raises at the first entry that
\* is not a string, and else returns the forbidden entries in the order of the report.
collect_forbidden(files_changed, forbidden) ==
    IF files_changed = <<>> THEN [raised |-> FALSE, forbidden |-> forbidden]
    ELSE LET entry == Head(files_changed) IN
         IF ~is_path_string(entry) THEN [raised |-> TRUE, forbidden |-> forbidden]
         ELSE collect_forbidden(Tail(files_changed),
                                IF IsForbidden(entry) THEN Append(forbidden, entry) ELSE forbidden)

\* policies.py:20-43: the outcome of assert_no_forbidden_changes.
assert_no_forbidden_changes(files_changed) ==
    LET loop_end == collect_forbidden(files_changed, <<>>) IN
    IF loop_end.raised
    THEN [kind |-> "PolicyViolation", message |-> "files_changed entries must be strings.", listed |-> <<>>]
    ELSE IF loop_end.forbidden # <<>>
         THEN [kind |-> "PolicyViolation", message |-> "Forbidden files modified: ",
               listed |-> sorted(loop_end.forbidden)]
         ELSE [kind |-> "passed", message |-> "", listed |-> <<>>]

\* Entries an agent may report: inside the project, under design/ and ai/, outside
\* the project root, relative and absolute, with ".." segments, and one non-string.
ReportedEntries ==
    { Rel(<<"src", "a.txt">>),
      Rel(<<"design", "spec.md">>),
      Rel(<<"ai", "config.json">>),
      Rel(<<"ai", "PLAN.yaml">>),
      Rel(<<"src", "..", "design", "spec.md">>),
      Rel(<<"..", "x">>),
      Rel(<<"design", "..", "src", "a.txt">>),
      Abs(<<"proj", "src", "a.txt">>),
      Abs(<<"etc", "x">>),
      JInt(7) }

InitPolicy ==
    /\ config \in { c \in Configs : c.max_retries_per_task = 0 /\ c.max_consecutive_failures = 1
                                    /\ c.strict_schema_validation }
    /\ LoopIdle
    /\ StoreIdle
    /\ SelectIdle
    /\ atomicWrite = [pc |-> "idle"]
    /\ runTask = [pc |-> "idle"]
    /\ inputs = "present"
    /\ summaryDoc = [pc |-> "idle"]
    /\ \E n \in 0..MaxFiles :
          \E files \in [1..n -> ReportedEntries] :
              policyCheck = [pc |-> "called", files_changed |-> files, out |-> None]

\* policies.py:20-43: one call of assert_no_forbidden_changes(files_changed, ...).
ApplyPolicy ==
    /\ policyCheck.pc = "called"
    /\ policyCheck' = [policyCheck EXCEPT !.pc = "left",
                                          !.out = Some(assert_no_forbidden_changes(policyCheck.files_changed))]
    /\ UNCHANGED <<program, atomicWrite, runTask, inputs, summaryDoc>>

NextPolicy == ApplyPolicy

SpecPolicy == InitPolicy /\ [][NextPolicy]_vars

\* ------------------------------------------------ the run under fair scheduling
\* The steps of one run: main() and _run_loop are sequential code, so a run that can
\* take a step takes it; the agent call returns because run_task waits for the answer
\* no longer than the task timeout (mcp_client.py:108-112).
RunStep ==
    \/ Startup
    \/ CheckLock
    \/ EnsurePlan
    \/ SelectAndActivate
    \/ WritePlan
    \/ WriteProgress
    \/ WriteActiveTask
    \/ RunAgent
    \/ ClearActiveTask
    \/ WriteLastResult
    \/ CheckPolicy
    \/ OnSuccess
    \/ OnBlocked
    \/ OnFailed
    \/ OnUnexpected
    \/ AppendSummary

\* One run on a project whose plan, if there is one, is as it was authored: every
\* task and every objective pending, no Active Task file; max_retries_per_task is
\* the smallest or the largest configured value (every value above RetryClamp is
\* clamped to it).
InitLive ==
    /\ Init
    /\ activeFile = None
    /\ config.max_retries_per_task \in {0, MaxRetriesCfg}
    /\ planFile # None =>
          /\ \A k \in 1..Len(Get(planFile).objectives) : Get(planFile).objectives[k].status = "pending"
          /\ \A i \in 1..Len(Get(planFile).tasks) : Get(planFile).tasks[i].status = "pending"

NextLive == RunStep

SpecLive == InitLive /\ [][NextLive]_vars /\ WF_vars(NextLive)

\* ----------------------------------------------------------------- claims
\* Status of a task in a plan file or in the local plan.
TaskStatus(p, id) == Get(p).tasks[find_task(Get(p), id)].status

\* The exception classes main() distinguishes (daemon.py:57-62).
StopExecutionCauses ==
    {"ActiveTaskExists", "Timeout", "Blocked", "MaxConsecutiveFailures", "TaskFailed", "UnexpectedStatus"}

\* C1: at the top of every iteration, if the Active Task file exists the loop halts
\* with StopExecution before loading the plan, without invoking the agent and without
\* writing or deleting any state file; the Active Task file is still there afterwards.
C1_LockHaltsAtTop ==
    [][(pc = "l76" /\ activeFile # None) =>
          /\ pc' = "halted"
          /\ cause' = "ActiveTaskExists"
          /\ cause' \in StopExecutionCauses
          /\ disk' = disk
          /\ activeFile' # None
          /\ plan' = plan
          /\ invocations' = invocations]_vars

C1_Witness ==
    /\ pc = "halted"
    /\ cause = "ActiveTaskExists"
    /\ activeFile # None
    /\ plan = None

\* C2: a run that starts on a plan containing an active task activates no task and
\* never invokes the agent: it halts at step 1 when the Active Task file is present
\* and with PlannerError from select_next_task when it is absent, and never both.
C2_ActivePlanNeverRuns ==
    startActive > 0 =>
        /\ invocations = NoAttempts
        /\ pc \in {"start", "l76", "l79", "l80", "halted"}
        /\ pc = "halted" => cause \in {"ActiveTaskExists", "PlannerError"}
        /\ (pc = "halted" /\ cause = "ActiveTaskExists") => activeFile # None
        /\ (pc = "halted" /\ cause = "PlannerError") => activeFile = None

\* C3: starting from a plan with at most one active task, the plan in memory and the
\* plan in PLAN.yaml contain at most one active task in every reachable state.
C3_AtMostOneActive ==
    initActive <= 1 => (ActiveCount(plan) <= 1 /\ ActiveCount(planFile) <= 1)

\* C4: whenever PLAN.yaml contains an active task, the Active Task file exists
\* (stated for runs that start from a plan without an active task).
C4_ActiveImpliesLock ==
    initActive = 0 => (ActiveCount(planFile) > 0 => activeFile # None)

\* C5: the tracker's limit is min(k, 1) for every configured k, and no task id is
\* handed to the agent more than twice in one run.
C5_RetryClamp ==
    /\ pc # "start" =>
          max_retries_per_task =
              (IF config.max_retries_per_task <= 1 THEN config.max_retries_per_task ELSE 1)
    /\ \A id \in TaskIds : invocations[id] <= 2

C5_Witness ==
    /\ config.max_retries_per_task > 1
    /\ \E id \in TaskIds : invocations[id] = 2

\* The agent returned this status in the current iteration (result is cleared when
\* the next iteration starts).
Returned(status) == result # None /\ Get(result).status = status

\* Some reported entry lies under design/, under the state directory, or outside the root.
ReportsForbiddenPath(files) ==
    \E i \in 1..Len(files) :
        LET r == resolve_path(ProjectRoot, files[i]) IN
        \/ is_within(r, ProjectRoot \o <<"design">>)
        \/ is_within(r, ProjectRoot \o <<"ai">>)
        \/ ~is_within(r, ProjectRoot)

\* C6: an iteration whose result is success with no forbidden path never halts, and
\* when it ends (the loop is back at its top) the task is done in PLAN.yaml, the
\* consecutive-failure counter is 0, the Active Task file is absent and
\* LAST_RESULT.json holds the returned payload.
C6_SuccessIteration ==
    (Returned("success") /\ ~ReportsForbiddenPath(Get(result).files_changed)) =>
        /\ pc \notin {"halted", "stopped"}
        /\ pc = "l76" =>
              /\ TaskStatus(planFile, task) = "done"
              /\ consecutive_failures = 0
              /\ activeFile = None
              /\ lastResultFile = result

\* A success on the retry of a task that failed before.
C6_Witness ==
    /\ Returned("success")
    /\ pc = "l76"
    /\ invocations[task] = 2
    /\ TaskStatus(planFile, task) = "done"
    /\ planFile = plan

\* record_failure has run for the failed result of the current iteration.
FailureRecorded ==
    /\ Returned("failed")
    /\ \/ pc \in {"l136", "l137", "l138", "l141", "l142", "l143", "l76"}
       \/ pc = "halted" /\ cause \in {"MaxConsecutiveFailures", "TaskFailed"}

\* C7 as claimed: a failed result whose recorded attempt count is at most the
\* effective max_retries_per_task puts the task back to pending and the loop goes on.
C7_RetryWheneverAttemptsAllow ==
    (FailureRecorded /\ attempts[task] <= max_retries_per_task) =>
        /\ pc # "halted"
        /\ pc = "l76" => TaskStatus(planFile, task) = "pending"

\* C7 amended: the same, provided the consecutive-failure counter is still below
\* max_consecutive_failures after the failure is recorded.
C7_RetryBelowCeiling ==
    (/\ FailureRecorded
     /\ attempts[task] <= max_retries_per_task
     /\ consecutive_failures < config.max_consecutive_failures) =>
        /\ pc # "halted"
        /\ pc = "l76" => TaskStatus(planFile, task) = "pending" /\ planFile = plan

C7_Witness ==
    /\ FailureRecorded
    /\ pc = "l76"
    /\ attempts[task] = 1
    /\ TaskStatus(planFile, task) = "pending"

\* C8: with max_consecutive_failures = 2, after the second consecutive failed result
\* the loop halts with "Max consecutive failures reached." and the task is pending.
C8_CeilingLeavesPending ==
    (/\ config.max_consecutive_failures = 2
     /\ FailureRecorded
     /\ consecutive_failures = 2) =>
        /\ pc = "halted"
        /\ cause = "MaxConsecutiveFailures"
        /\ TaskStatus(plan, task) = "pending"
        /\ TaskStatus(planFile, task) = "pending"

\* C9: after a timeout the run is halted with the timeout cause, the Active Task file
\* is still on disk, nothing was written after the agent call, and the next run halts
\* at step 1 without invoking the agent.
C9_TimeoutKeepsLock ==
    /\ (pc = "halted" /\ cause = "Timeout") =>
          /\ activeFile # None
          /\ activeFile = active_task
          /\ log[Len(log)] = "agent"
    /\ prevCause = "Timeout" =>
          /\ pc \in {"start", "l76", "halted"}
          /\ pc = "halted" => cause = "ActiveTaskExists"
          /\ invocations = NoAttempts
          /\ activeFile # None

C9_Witness ==
    /\ prevCause = "Timeout"
    /\ pc = "halted"
    /\ cause = "ActiveTaskExists"

\* C10: an Agent Result (one write_last_result accepts) that reports a forbidden path
\* halts the loop with PolicyViolation before the task is finalized: PLAN.yaml still
\* shows the task active, the Active Task file is gone, LAST_RESULT.json holds the
\* result, no summary entry was appended; the next run ends with PlannerError from
\* task selection without invoking the agent.
C10_PolicyHalt ==
    /\ (/\ result # None
        /\ Get(result).status \in {"success", "failed", "blocked"}
        /\ ReportsForbiddenPath(Get(result).files_changed)
        /\ pc \notin {"l102", "l105", "l107"}) =>
          /\ pc = "halted"
          /\ cause = "PolicyViolation"
          /\ TaskStatus(planFile, task) = "active"
          /\ activeFile = None
          /\ lastResultFile = result
          /\ \A i \in 1..Len(log) : log[i] # "summary"
    /\ prevCause = "PolicyViolation" =>
          /\ pc \in {"start", "l76", "l79", "l80", "halted"}
          /\ pc = "halted" => cause = "PlannerError"
          /\ invocations = NoAttempts

C10_Witness ==
    /\ prevCause = "PolicyViolation"
    /\ pc = "halted"
    /\ cause = "PlannerError"
    /\ lastResultFile # None
    /\ ReportsForbiddenPath(Get(lastResultFile).files_changed)

\* The current iteration ran the agent to a returned result and went through its
\* whole branch: success or failed-with-retry (back at the top of the loop), blocked
\* or failed-final (halted after the summary).
IterationCompleted ==
    /\ result # None
    /\ \/ pc = "l76"
       \/ pc = "halted" /\ cause \in {"Blocked", "TaskFailed"}

\* C11: in every iteration that runs the agent to a returned result, the mutations
\* occur in exactly the order plan, progress, Active Task file created, agent invoked,
\* last-result written, Active Task file deleted, plan, progress, summary.
C11_MutationOrder ==
    IterationCompleted =>
        log = <<"plan", "progress", "active_create", "agent",
                "last_result", "active_delete", "plan", "progress", "summary">>

\* The progress file holds exactly the id-to-status projection of the plan file.
ProgressMirrorsPlan ==
    /\ planFile # None
    /\ progressFile # None
    /\ LET p == Get(planFile)
           g == Get(progressFile) IN
       /\ \A k \in 1..Len(p.objectives) : <<p.objectives[k].id, p.objectives[k].status>> \in g.objectives
       /\ \A e \in g.objectives : \E k \in 1..Len(p.objectives) : e = <<p.objectives[k].id, p.objectives[k].status>>
       /\ \A i \in 1..Len(p.tasks) : <<p.tasks[i].id, p.tasks[i].status>> \in g.tasks
       /\ \A e \in g.tasks : \E i \in 1..Len(p.tasks) : e = <<p.tasks[i].id, p.tasks[i].status>>

\* The current run has written PLAN.yaml: every iteration that selects a task writes
\* the plan before it invokes the agent, and ensure_plan writes it when it was absent.
RunWrotePlan ==
    \/ invocations # NoAttempts
    \/ \E i \in 1..Len(log) : log[i] = "plan"

\* C12: right after every progress write that follows a plan write, and in the state
\* a run that wrote the plan leaves behind, the progress snapshot equals the
\* id-to-status projection of the persisted plan.
C12_ProgressMirrorsPlan ==
    /\ (log # <<>> /\ log[Len(log)] = "progress") => ProgressMirrorsPlan
    /\ (pc \in {"halted", "stopped"} /\ RunWrotePlan) => ProgressMirrorsPlan

\* Statuses of the tasks of plan p related to its k-th objective.
RelatedStatuses(p, k) ==
    { p.tasks[i].status : i \in { j \in 1..Len(p.tasks) : p.tasks[j].objective = p.objectives[k].id } }

\* The status the rollup rule prescribes for the k-th objective of p, given its prior status.
PrescribedStatus(p, k, prior) ==
    LET rel == RelatedStatuses(p, k) IN
    IF rel = {} THEN prior
    ELSE IF \A s \in rel : s = "done" THEN "complete"
    ELSE IF \E s \in rel : s \in {"active", "done", "failed", "blocked"} THEN "in_progress"
    ELSE "pending"

\* C13: after every planner mutation of the loop's plan (activate_task, finalize_task,
\* reset_task_for_retry), every objective with a related task is complete if all its
\* tasks are done, else in_progress if one is active, done, failed or blocked, else
\* pending; an objective with no related task keeps its prior status.
C13_ObjectiveRollup ==
    [][(plan # None /\ plan' # None /\ plan' # plan) =>
          \A k \in 1..Len(Get(plan').objectives) :
              Get(plan').objectives[k].status =
                  PrescribedStatus(Get(plan'), k, Get(plan).objectives[k].status)]_vars

\* activate_task has just turned a stale "complete" into in_progress, and the
\* objective without tasks kept its status.
C13_Witness ==
    /\ pc = "l86"
    /\ Get(planFile).objectives[1].status = "complete"
    /\ Get(plan).objectives[1].status = "in_progress"
    /\ RelatedStatuses(Get(plan), 2) = {}
    /\ Get(plan).objectives[2].status = "complete"

\* A resolved path that names the config, goals or sources file or lies under design/.
ReadOnlyFile(p) ==
    \/ p \in { <<"proj", "ai", "config.json">>, <<"proj", "ai", "GOALS.md">>,
               <<"proj", "ai", "SOURCES.yaml">> }
    \/ Len(p) > 2 /\ p[1] = "proj" /\ p[2] = "design"

\* A resolved path that names one of the five writable files.
WritableFile(p) ==
    p \in { <<"proj", "ai", "PLAN.yaml">>, <<"proj", "ai", "ACTIVE_TASK.yaml">>,
            <<"proj", "ai", "SUMMARY.md">>, <<"proj", "ai", "LAST_RESULT.json">>,
            <<"proj", "ai", "PROGRESS.yaml">> }

\* C14: a write aimed at the config, goals or sources file or at a path under design/
\* fails with ReadOnlyStateError, a write aimed at a path that is neither read-only nor
\* one of the five writable files fails too, both leave every file unchanged, and
\* over any sequence of store operations (those the loop calls included) every
\* read-only file keeps the content it had at startup.
C14_ReadOnlyImmutable ==
    /\ [](\A p \in FsPaths : ReadOnlyFile(p) => fs[p] = Content("text", 0))
    /\ [][LET aimed == Normalize(storeOp'.target, <<>>) IN
          /\ \A p \in FsPaths : ReadOnlyFile(p) => fs'[p] = fs[p]
          /\ (storeCalls' # storeCalls /\ ReadOnlyFile(aimed)) =>
                (storeErr' = "ReadOnlyStateError" /\ fs' = fs)
          /\ (storeCalls' # storeCalls /\ ~ReadOnlyFile(aimed) /\ ~WritableFile(aimed)) =>
                (storeErr' # "" /\ fs' = fs)]_vars

\* After a successful write of the plan, a write aimed at a design file through a
\* path with ".." has failed and left the file as it was.
C14_Witness ==
    /\ storeOp.op = "_atomic_write_text"
    /\ storeOp.target = <<"proj", "ai", "..", "design", "spec.md">>
    /\ storeErr = "ReadOnlyStateError"
    /\ fs[<<"proj", "design", "spec.md">>] = Content("text", 0)
    /\ fs[<<"proj", "ai", "PLAN.yaml">>] # Absent

\* The payload list of each validating write operation.
PayloadsOf(op) ==
    CASE op = "write_plan" -> PlanPayloads
      [] op = "write_active_task" -> ActiveTaskPayloads
      [] op = "write_last_result" -> ResultPayloads

\* The last store call was a validating write of a payload that violates the schema.
InvalidPayloadWritten(call) ==
    /\ call.op \in {"write_plan", "write_active_task", "write_last_result"}
    /\ PayloadsOf(call.op)[call.payload].violation # "none"

\* C15: under strict schema validation every write_plan, write_active_task or
\* write_last_result call whose payload violates the schema (missing key, unexpected
\* key, wrong type, boolean as integer, enum violation, non-string list element) fails
\* with StateValidationError and leaves every file unchanged.
C15_InvalidPayloadRejected ==
    [][(/\ config.strict_schema_validation
        /\ storeCalls' # storeCalls
        /\ InvalidPayloadWritten(storeOp')) =>
           (storeErr' = "StateValidationError" /\ fs' = fs)]_vars

\* An Active Task payload with timeout_seconds = true was rejected after a valid
\* Active Task had been written, which is still in the file.
C15_Witness ==
    /\ config.strict_schema_validation
    /\ storeOp.op = "write_active_task"
    /\ ActiveTaskPayloads[storeOp.payload].violation = "boolean as integer"
    /\ storeErr = "StateValidationError"
    /\ fs[<<"proj", "ai", "ACTIVE_TASK.yaml">>] = Content("active_task", 1)

\* C16: a run on the empty plan (PLAN.yaml holds it, or was absent and ensure_plan
\* materialized it) that gets past the lock check stops normally with "No pending
\* tasks available. Stopping." without invoking the agent, and PROGRESS.yaml then
\* holds {"objectives": {}, "tasks": {}}.
C16_EmptyPlanStop ==
    (/\ planFile = Some([version |-> 1, objectives |-> <<>>, tasks |-> <<>>])
     /\ pc \in {"halted", "stopped"}
     /\ cause # "ActiveTaskExists") =>
        /\ pc = "stopped"
        /\ cause = "NoPendingTasks"
        /\ invocations = NoAttempts
        /\ progressFile = Some([objectives |-> {}, tasks |-> {}])

\* No two tasks of the plan have the same id.
UniqueIds(p) ==
    \A i, j \in 1..Len(p.tasks) : p.tasks[i].id = p.tasks[j].id => i = j

\* The status of the task an id names is st (FALSE if the id names no task).
NamesTaskIn(p, id, st) ==
    \E j \in 1..Len(p.tasks) : p.tasks[j].id = id /\ p.tasks[j].status \in st

\* Every depends_on id of every pending task names a task of the plan.
NoDanglingDependency(p) ==
    \A i \in 1..Len(p.tasks) :
        p.tasks[i].status = "pending" =>
            \A k \in 1..Len(p.tasks[i].depends_on) :
                NamesTaskIn(p, p.tasks[i].depends_on[k], TASK_STATUSES)

\* The i-th task is pending and each of its depends_on ids names a done task.
Eligible(p, i) ==
    /\ p.tasks[i].status = "pending"
    /\ \A k \in 1..Len(p.tasks[i].depends_on) :
          NamesTaskIn(p, p.tasks[i].depends_on[k], {"done"})

\* What selection must have done on the plan file p, given where the loop is: at line
\* 86 the task just activated is the first eligible one of p, the run did not end with
\* PlannerError, and it stopped normally only if p has no eligible task.
SelectedFirstEligible(p) ==
    /\ pc = "l86" =>
          \E i \in 1..Len(p.tasks) :
              /\ p.tasks[i].id = task
              /\ Eligible(p, i)
              /\ \A j \in 1..(i - 1) : ~Eligible(p, j)
    /\ ~(pc = "halted" /\ cause = "PlannerError")
    /\ pc = "stopped" => \A i \in 1..Len(p.tasks) : ~Eligible(p, i)

\* The agent was handed a task only if all its dependencies are done.
InvokedOnlyWithDoneDependencies ==
    (log # <<>> /\ log[Len(log)] = "agent") =>
        \A k \in 1..Len(Get(active_task).depends_on) :
            NamesTaskIn(Get(plan), Get(active_task).depends_on[k], {"done"})

Examined(p, i) ==
    \A j \in 1..(i - 1) : p.tasks[j].status # "active" /\ ~Eligible(p, j)

\* Some depends_on id of the i-th task names no task of the plan.
HasDanglingDependency(p, i) ==
    \E k \in 1..Len(p.tasks[i].depends_on) :
        ~NamesTaskIn(p, p.tasks[i].depends_on[k], TASK_STATUSES)

\* C18: select_next_task fails with PlannerError when the plan has duplicate task ids,
\* and when a pending task its scan examines has a depends_on id that names no task,
\* wherever that id stands in the list and whatever the other dependencies' statuses.
C18_DanglingDependencyFails ==
    selOut # None =>
        LET p == Get(selPlan) IN
        /\ ~UniqueIds(p) => Get(selOut).kind = "error"
        /\ (/\ UniqueIds(p)
            /\ \E i \in 1..Len(p.tasks) :
                  /\ p.tasks[i].status = "pending"
                  /\ Examined(p, i)
                  /\ HasDanglingDependency(p, i)) => Get(selOut).kind = "error"

\* C19: when the agent returns blocked with no forbidden path, the loop goes through
\* the blocked branch only (it never returns to the top, so no later task is selected
\* or handed to the agent in that run) and halts with the task blocked in PLAN.yaml
\* and PROGRESS.yaml, a summary entry for it appended and the Active Task file absent;
\* the consecutive-failure counter and the per-task attempts do not change.
C19_BlockedHalts ==
    /\ []((Returned("blocked") /\ ~ReportsForbiddenPath(Get(result).files_changed)) =>
            /\ pc \in {"l102", "l105", "l107", "l114", "l125", "l126", "l127", "halted"}
            /\ pc = "halted" =>
                  /\ cause = "Blocked"
                  /\ TaskStatus(plan, task) = "blocked"
                  /\ TaskStatus(planFile, task) = "blocked"
                  /\ <<task, "blocked">> \in Get(progressFile).tasks
                  /\ summaryFile # <<>>
                  /\ summaryFile[Len(summaryFile)] = [task |-> task, status |-> "blocked"]
                  /\ activeFile = None)
    /\ [][(Returned("blocked") /\ pc # "halted") =>
              (attempts' = attempts /\ consecutive_failures' = consecutive_failures)]_vars

\* A task that failed once and was retried is blocked on the retry: the counters of
\* the failure are still there at the halt.
C19_Witness ==
    /\ Returned("blocked")
    /\ pc = "halted"
    /\ cause = "Blocked"
    /\ consecutive_failures = 1
    /\ attempts[task] = 1
    /\ TaskStatus(planFile, task) = "blocked"

\* The agent returned a status other than success, failed and blocked.
ReturnedUnexpected ==
    result # None /\ Get(result).status \notin {"success", "failed", "blocked"}

\* C20 as claimed: an unexpected status halts the loop with the "unexpected status"
\* cause, under both settings of strict_schema_validation.
C20_UnexpectedStatusHalts ==
    (/\ ReturnedUnexpected
     /\ ~ReportsForbiddenPath(Get(result).files_changed)) =>
        /\ pc \in {"l102", "l105", "l107", "l114", "halted"}
        /\ pc = "halted" => cause = "UnexpectedStatus"

\* C20 amended: an unexpected status always halts the loop before the task is
\* finalized; the cause is "unexpected status" when strict_schema_validation is off
\* (and no forbidden path is reported), and the StateValidationError of
\* write_last_result, with LAST_RESULT.json not written, when it is on.
C20_UnexpectedStatusHaltsByMode ==
    ReturnedUnexpected =>
        /\ pc \in {"l102", "l105", "l107", "l114", "halted"}
        /\ TaskStatus(plan, task) = "active"
        /\ pc = "halted" =>
              /\ activeFile = None
              /\ TaskStatus(planFile, task) = "active"
              /\ config.strict_schema_validation =>
                    (cause = "StateValidation" /\ lastResultFile # result)
              /\ (/\ ~config.strict_schema_validation
                  /\ ~ReportsForbiddenPath(Get(result).files_changed)) =>
                    (cause = "UnexpectedStatus" /\ lastResultFile = result)

\* Under strict validation the run has halted in write_last_result: the lock file is
\* gone, LAST_RESULT.json was never written and the task is still active in PLAN.yaml.
C20_Witness ==
    /\ ReturnedUnexpected
    /\ config.strict_schema_validation
    /\ pc = "halted"
    /\ cause = "StateValidation"
    /\ lastResultFile = None
    /\ activeFile = None
    /\ TaskStatus(planFile, task) = "active"

\* The call of _atomic_write_bytes has not renamed the temporary file onto the target.
NotRenamed ==
    \/ atomicWrite.pc \in {"mkstemp", "write", "close", "replace", "raised"}
    \/ atomicWrite.pc = "finally" /\ atomicWrite.err # ""
    \/ atomicWrite.pc = "crashed" /\ atomicWrite.at \in {"mkstemp", "write", "close", "replace"}
    \/ atomicWrite.pc = "crashed" /\ atomicWrite.at = "finally" /\ atomicWrite.err # ""

\* C21: a write is committed only by the rename: while the call has not renamed the
\* temporary file (it is still running, has failed, or was interrupted before the
\* rename) the target holds exactly its previous content; at every moment the target
\* holds the complete old or the complete new content; after the rename it holds the
\* new content; and when the call raises, the temporary file is gone.
C21_AtomicWrite ==
    /\ NotRenamed => atomicWrite.target = atomicWrite.old
    /\ atomicWrite.target \in {atomicWrite.old, atomicWrite.payload}
    /\ ~NotRenamed => atomicWrite.target = atomicWrite.payload
    /\ atomicWrite.pc \in {"raised", "returned"} => atomicWrite.tmp = Absent

\* A write that failed after part of the payload had reached the temporary file has
\* raised, with the target as it was and the temporary file removed.
C21_Witness ==
    /\ atomicWrite.pc = "raised"
    /\ atomicWrite.err = "OSError"
    /\ atomicWrite.old # Absent
    /\ atomicWrite.old # atomicWrite.payload
    /\ atomicWrite.target = atomicWrite.old
    /\ atomicWrite.tmp = Absent

\* The request run_task is about to send: {"task": active_task} (daemon.py:95-98).
RequestTask == Get(active_task)

\* C22: at the moment the agent is invoked for a task, PLAN.yaml shows that task as
\* active, PROGRESS.yaml shows it as active, and ACTIVE_TASK.yaml exists and equals the
\* task sent to the agent: the task's fields as PLAN.yaml holds them plus
\* timeout_seconds equal to the configured task timeout.
C22_DurableBeforeInvoke ==
    pc = "l98" =>
        /\ planFile # None
        /\ TaskStatus(planFile, task) = "active"
        /\ progressFile # None
        /\ <<task, "active">> \in Get(progressFile).tasks
        /\ \A e \in Get(progressFile).tasks : e[1] = task => e[2] = "active"
        /\ activeFile # None
        /\ Get(activeFile) = RequestTask
        /\ LET t == Get(planFile).tasks[find_task(Get(planFile), task)] IN
           RequestTask = [id |-> t.id, objective |-> t.objective, status |-> t.status,
                          depends_on |-> t.depends_on,
                          timeout_seconds |-> config.task_timeout_seconds]

\* The agent is about to be invoked for the retry of a task with a dependency.
C22_Witness ==
    /\ pc = "l98"
    /\ invocations[task] = 1
    /\ Get(active_task).depends_on # <<>>
    /\ Get(activeFile).status = "active"

\* run_task has returned or raised after the subprocess was spawned.
RunTaskLeft ==
    /\ runTask.pc \in {"returned", "raised"}
    /\ runTask.process # "none"

\* C23: on every exit path of run_task after the subprocess was spawned, the
\* subprocess is no longer running when run_task returns or raises: it exited on its
\* own (no signal was sent), or it was sent terminate and, only after that, kill.
C23_SubprocessReaped ==
    RunTaskLeft =>
        /\ runTask.process = "exited"
        /\ runTask.signals \in {<<>>, <<"terminate">>, <<"terminate", "kill">>}

\* The agent did not answer within the task timeout and ignored terminate: run_task
\* raised MCPTimeoutError after killing it.
C23_Witness ==
    /\ RunTaskLeft
    /\ runTask.err = "MCPTimeoutError"
    /\ runTask.signals = <<"terminate", "kill">>
    /\ runTask.process = "exited"

\* The causes that are errors: every cause but the StopExecution ones and the normal stop.
ErrorCauses == {"MissingState", "StateValidation", "ReadOnlyWrite", "PlannerError",
                "PolicyViolation", "MCPError"}

\* daemon.py:57-62: a handler of main() has logged the cause of the run's end.
LoggedCause == pc = "halted"

\* daemon.py:63-64: the finally clause has logged "Shepherd exiting.".
LoggedExiting == pc \in {"halted", "stopped"}

\* C24: every MissingState, StateValidation, ReadOnlyWrite, PlannerError,
\* PolicyViolation or agent error raised after "Shepherd starting." was logged, the
\* start-up checks included, is caught at the top level: its cause is logged and the
\* run ends with "Shepherd exiting.".
C24_ErrorsCaught ==
    cause \in ErrorCauses => LoggedCause /\ LoggedExiting

\* The text without its trailing whitespace, and whether it is all whitespace.
Trimmed(text) ==
    LET keep == { n \in 0..Len(text) : n = 0 \/ text[n] \notin Whitespace } IN
    SubSeq(text, 1, CHOOSE n \in keep : \A m \in keep : m <= n)
Blank(text) == Trimmed(text) = <<>>

\* The entry with one newline added if it did not end with one.
Terminated(entry) ==
    IF entry # <<>> /\ entry[Len(entry)] = "\n" THEN entry ELSE entry \o <<"\n">>

RECURSIVE OccurInOrder(_, _)
\* The texts occur in the document one after the other, without overlap.
OccurInOrder(texts, doc) ==
    IF texts = <<>> THEN TRUE
    ELSE LET t == Head(texts) IN
         \E i \in 1..(Len(doc) - Len(t) + 1) :
            /\ SubSeq(doc, i, i + Len(t) - 1) = t
            /\ OccurInOrder(Tail(texts), SubSeq(doc, i + Len(t), Len(doc)))

\* What the last append_summary call was to write, by the rule of the claim.
LastAppendAsPrescribed ==
    LET entry == summaryDoc.entries[Len(summaryDoc.entries)]
        prev == summaryDoc.prev
        doc == Get(summaryDoc.file) IN
    IF prev = None \/ Blank(Get(prev))
    THEN doc = SummaryHeader \o Terminated(entry)
    ELSE doc = Trimmed(Get(prev)) \o <<"\n", "\n">> \o Terminated(entry)

\* The entries passed before the last call.
EarlierEntries == SubSeq(summaryDoc.entries, 1, Len(summaryDoc.entries) - 1)

\* C25 as stated: every call writes what the rule prescribes, and every entry passed
\* so far is in the document as it was passed, in call order.
C25_AppendOnly ==
    summaryDoc.entries # <<>> =>
        /\ LastAppendAsPrescribed
        /\ OccurInOrder(summaryDoc.entries, Get(summaryDoc.file))

\* C25 amended: every call writes what the rule prescribes; every earlier entry
\* that is not blank is in the document with its trailing whitespace trimmed, in call
\* order, followed by the last entry as terminated.
C25_AppendOnlyUpToTrailingWhitespace ==
    summaryDoc.entries # <<>> =>
        /\ LastAppendAsPrescribed
        /\ OccurInOrder(
              [k \in 1..Len(SelectSeq(EarlierEntries, LAMBDA e : ~Blank(e))) |->
                  Trimmed(SelectSeq(EarlierEntries, LAMBDA e : ~Blank(e))[k])]
              \o <<Terminated(summaryDoc.entries[Len(summaryDoc.entries)])>>,
              Get(summaryDoc.file))

\* An entry ending in a space was followed by another entry on a summary that had text.
C25_Witness ==
    /\ Len(summaryDoc.entries) = 2
    /\ summaryDoc.first = Some(<<"# Notes", "\n">>)
    /\ summaryDoc.entries[1] = <<"Task 3: done", "\n", "Notes: ok", " ">>
    /\ summaryDoc.entries[2] = <<"Task 1: done">>
    /\ Get(summaryDoc.file) = <<"# Notes", "\n", "\n", "Task 3: done", "\n", "Notes: ok",
                                "\n", "\n", "Task 1: done", "\n">>

\* The reported list holds path strings only.
AllPathStrings(files) == \A i \in 1..Len(files) : "segs" \in DOMAIN files[i]

\* The entry, anchored at the project root when relative and canonicalized, lies under
\* design/, under ai/, or outside the project root.
Offending(entry) ==
    LET anchored == IF entry.abs THEN entry.segs ELSE ProjectRoot \o entry.segs
        canonical == Normalize(anchored, <<>>) IN
    \/ is_within(canonical, DesignDir)
    \/ is_within(canonical, StateDir)
    \/ ~is_within(canonical, ProjectRoot)

\* How often an entry occurs in a list.
Occurrences(list, entry) == Cardinality({ i \in 1..Len(list) : list[i] = entry })

\* C26: for every list of reported path strings, the policy enforcer fails if and
\* only if at least one entry is offending; when it fails, the message lists exactly
\* the offending entries (each as often as reported) in lexicographic order of their
\* strings; a list without offending entry passes.
C26_PolicyEnforcer ==
    (policyCheck.pc = "left" /\ AllPathStrings(policyCheck.files_changed)) =>
        LET files == policyCheck.files_changed
            out == Get(policyCheck.out) IN
        /\ out.kind = "PolicyViolation" <=> \E i \in 1..Len(files) : Offending(files[i])
        /\ out.kind # "PolicyViolation" => out.kind = "passed"
        /\ out.kind = "PolicyViolation" =>
              /\ out.message = "Forbidden files modified: "
              /\ \A i \in 1..Len(out.listed) : Offending(out.listed[i])
              /\ \A i \in 1..Len(files) :
                    Offending(files[i]) => Occurrences(out.listed, files[i]) = Occurrences(files, files[i])
              /\ Len(out.listed) = Cardinality({ i \in 1..Len(files) : Offending(files[i]) })
              /\ \A i \in 1..(Len(out.listed) - 1) :
                    StrLeq(EntryString(out.listed[i]), EntryString(out.listed[i + 1]))

\* A report of an allowed file, a state file and a path that leaves the project root:
\* the enforcer failed and listed "../x" before "ai/PLAN.yaml".
C26_Witness ==
    /\ policyCheck.pc = "left"
    /\ policyCheck.files_changed = <<Rel(<<"ai", "PLAN.yaml">>), Rel(<<"src", "a.txt">>), Rel(<<"..", "x">>)>>
    /\ Get(policyCheck.out).kind = "PolicyViolation"
    /\ Get(policyCheck.out).listed = <<Rel(<<"..", "x">>), Rel(<<"ai", "PLAN.yaml">>)>>

RECURSIVE SumTo(_, _)
\* The sum of the first n entries of a counter per task id.
SumTo(counter, n) == IF n = 0 THEN 0 ELSE counter[n] + SumTo(counter, n - 1)

\* Agent invocations of the current run, and the number of tasks of the plan.
InvocationsOfRun == SumTo(invocations, MaxTasks)
TasksOfPlan == IF planFile = None THEN 0 ELSE Len(Get(planFile).tasks)

\* The run has ended: normal stop or halt.
RunEnded == pc \in {"stopped", "halted"}

\* C27: every run that starts eventually stops (normal stop or halt), and the number
\* of agent invocations in one run is at most twice the number of tasks of the plan.
C27_Terminates ==
    /\ [](InvocationsOfRun <= 2 * TasksOfPlan)
    /\ (pc = "start") ~> RunEnded

\* A run stopped normally after it had invoked the agent twice for each of two tasks.
C27_Witness ==
    /\ pc = "stopped"
    /\ TasksOfPlan = 2
    /\ InvocationsOfRun = 4

\* The task has been finalized as failed in the local plan (daemon.py:140-144).
FinalizedFailed ==
    \/ pc \in {"l141", "l142", "l143"}
    \/ pc = "halted" /\ cause = "TaskFailed"

\* C28: in every state of a run the consecutive-failure counter is at most the
\* effective max_retries_per_task plus one, hence at most 2, and equals the attempt
\* count of the task that failed last (0 if none failed); the halt for too many
\* consecutive failures occurs only when max_consecutive_failures is 1 or 2, and a
\* task is finalized as failed only when max_consecutive_failures exceeds the
\* effective max_retries_per_task plus one.
C28_CounterBounded ==
    /\ pc # "start" =>
          /\ max_retries_per_task = (IF config.max_retries_per_task < 1
                                     THEN config.max_retries_per_task ELSE 1)
          /\ consecutive_failures <= max_retries_per_task + 1
    /\ consecutive_failures <= 2
    /\ consecutive_failures = (IF lastFailed = 0 THEN 0 ELSE attempts[lastFailed])
    /\ (pc = "halted" /\ cause = "MaxConsecutiveFailures") =>
          config.max_consecutive_failures \in {1, 2}
    /\ FinalizedFailed => config.max_consecutive_failures > max_retries_per_task + 1

\* The second consecutive failure of a task, its retry, reached a ceiling of 2.
C28_Witness ==
    /\ pc = "halted"
    /\ cause = "MaxConsecutiveFailures"
    /\ consecutive_failures = 2
    /\ lastFailed = task
    /\ attempts[task] = 2
    /\ config.max_consecutive_failures = 2

\* The run has stopped normally: "No pending tasks available." (daemon.py:81-83).
StoppedNormally == pc = "stopped" /\ cause = "NoPendingTasks"

\* C29: whenever a run stops normally, the Active Task file is absent, no task in
\* PLAN.yaml is active, every task still pending has a dependency that names a task
\* whose status is not done, and so no eligible pending task is left unexecuted.
C29_NormalStopLeavesNothingEligible ==
    StoppedNormally =>
        /\ activeFile = None
        /\ planFile # None
        /\ LET p == Get(planFile) IN
           /\ \A i \in 1..Len(p.tasks) : p.tasks[i].status # "active"
           /\ \A i \in 1..Len(p.tasks) :
                 p.tasks[i].status = "pending" =>
                    \E k \in 1..Len(p.tasks[i].depends_on) :
                       \E j \in 1..Len(p.tasks) :
                          /\ p.tasks[j].id = p.tasks[i].depends_on[k]
                          /\ p.tasks[j].status # "done"
           /\ \A i \in 1..Len(p.tasks) : ~Eligible(p, i)

\* A run stopped normally with a pending task left, its dependency being blocked.
C29_Witness ==
    /\ StoppedNormally
    /\ activeFile = None
    /\ \E i, j \in 1..Len(Get(planFile).tasks) :
          /\ Get(planFile).tasks[i].status = "pending"
          /\ Get(planFile).tasks[i].depends_on = <<Get(planFile).tasks[j].id>>
          /\ Get(planFile).tasks[j].status = "blocked"

\* The run was halted by a protocol or process error of the agent invocation.
HaltedByAgentError == pc = "halted" /\ cause = "MCPError"

\* C30: after a protocol or process error of the agent invocation the run is halted
\* with the Active Task file still on disk and PLAN.yaml still showing the task
\* active; nothing was written after the agent call (no last-result, summary, plan
\* or progress); the watchdog has not recorded the invocation (the task's attempt
\* count and the consecutive-failure counter are those of its earlier failures);
\* the next run halts at step 1 without invoking the agent.
C30_AgentErrorKeepsLock ==
    /\ HaltedByAgentError =>
          /\ activeFile # None
          /\ activeFile = active_task
          /\ TaskStatus(planFile, task) = "active"
          /\ planFile = plan
          /\ log[Len(log)] = "agent"
          /\ \A i \in 1..Len(log) : log[i] \notin {"last_result", "summary", "active_delete"}
          /\ attempts[task] = invocations[task] - 1
          /\ consecutive_failures = attempts[task]
    /\ prevCause = "MCPError" =>
          /\ pc \in {"start", "l76", "halted"}
          /\ pc = "halted" => cause = "ActiveTaskExists"
          /\ invocations = NoAttempts
          /\ activeFile # None

\* The run after an agent protocol error has halted on the Active Task file.
C30_Witness ==
    /\ prevCause = "MCPError"
    /\ pc = "halted"
    /\ cause = "ActiveTaskExists"
    /\ activeFile # None
    /\ ActiveCount(planFile) > 0

\* The statuses no task leaves.
AbsorbingStatuses == {"done", "failed", "blocked"}

\* From plan p to plan q the tasks keep their number, order, id, objective and
\* dependencies; only the task with id sel may change its status, and not if that
\* status is done, failed or blocked.
FrameKept(p, q, sel) ==
    /\ Len(q.tasks) = Len(p.tasks)
    /\ \A i \in 1..Len(p.tasks) :
          /\ q.tasks[i].id = p.tasks[i].id
          /\ q.tasks[i].objective = p.tasks[i].objective
          /\ q.tasks[i].depends_on = p.tasks[i].depends_on
          /\ q.tasks[i].status # p.tasks[i].status => p.tasks[i].id = sel
          /\ p.tasks[i].status \in AbsorbingStatuses => q.tasks[i].status = p.tasks[i].status

\* C31: every step of an iteration, and every later run, changes the status of no
\* task other than the selected one and no task's id, objective or dependencies, in
\* PLAN.yaml and in the loop's plan; the task selected is pending, so a task that is
\* done, failed or blocked is never handed to the agent and keeps its status.
C31_FrameAndAbsorbing ==
    [][/\ (planFile # None /\ planFile' # None) => FrameKept(Get(planFile), Get(planFile'), task')
       /\ (planFile = None /\ planFile' # None) => Get(planFile').tasks = <<>>
       /\ (plan # None /\ plan' # None) => FrameKept(Get(plan), Get(plan'), task')
       /\ (plan = None /\ plan' # None /\ planFile # None) => FrameKept(Get(planFile), Get(plan'), 0)
       /\ (pc = "l80" /\ pc' = "l86") =>
             /\ TaskStatus(plan, task') = "pending"
             /\ TaskStatus(plan', task') = "active"
       /\ pc' = "l98" => TaskStatus(planFile', task') = "active"]_vars

\* In a later run a task was executed and marked done next to a task that an earlier
\* run had left blocked.
C31_Witness ==
    /\ run = 2
    /\ planFile # None
    /\ \E i, j \in 1..Len(Get(planFile).tasks) :
          /\ Get(planFile).tasks[i].status = "blocked"
          /\ invocations[Get(planFile).tasks[i].id] = 0
          /\ Get(planFile).tasks[j].status = "done"
          /\ invocations[Get(planFile).tasks[j].id] = 1

=============================================================================
